---- MODULE Spec2Model ----
(***************************************************************************)
(* A model of prosemirror-view's EditorView (src/src/index.js): the view   *)
(* object, its constructor, updateState / update / setProps, focus, and    *)
(* the helper functions they call.  One action is one whole public call.   *)
(* The calls a handler makes into its collaborators (the view descriptor   *)
(* tree, the DOM observer, the selection writer, the scroll helpers) are   *)
(* recorded, in program order, in the variable `trace`.                    *)
(***************************************************************************)
EXTENDS Integers, Sequences, FiniteSets, TLC

(***************************************************************************)
(* Bounds and input domains                                                *)
(***************************************************************************)

\* Largest value of EditorState.scrollToSelection that a supplied state carries.
MaxScroll == 1

\* Documents (immutable values; equal names are equal documents).
Docs == {"docA", "docB"}

\* doc.content.size, read by computeDocDeco.
DocSize(d) == IF d = "docA" THEN 5 ELSE 11

\* Selections: anchor and head, the depth of the deepest node that contains
\* both ($anchor.sharedDepth(head)), and $anchor.start(depth) per depth
\* (starts[depth + 1]).
Sels ==
  { [anchor |-> 1, head |-> 1, shared |-> 1, starts |-> << 0, 1 >>],
    [anchor |-> 1, head |-> 3, shared |-> 1, starts |-> << 0, 1 >>],
    [anchor |-> 8, head |-> 10, shared |-> 1, starts |-> << 0, 8 >>] }

SelEmpty(s) == s.anchor = s.head

\* Selection.eq
SelEq(a, b) == a.anchor = b.anchor /\ a.head = b.head

EmptyMap == [n \in {} |-> ""]

\* A props object that sets nothing: every prop is null / undefined.
NoProps ==
  [ editable |-> "unset", nodeViews |-> EmptyMap, attributes |-> << >>,
    decorations |-> FALSE, handleScrollToSelection |-> "unset",
    handleDOMEvents |-> "unset", dispatchTransaction |-> FALSE ]

\* Plugins.  `props` is plugin.props, `view` is plugin.spec.view: "none" when
\* the plugin has no view factory, otherwise which hooks the produced plugin
\* view object has.
PluginBase ==
  [ key |-> "base",
    props |-> [NoProps EXCEPT !.nodeViews = [n \in {"image"} |-> "imgA"],
                              !.attributes = << <<"class", "base">> >>,
                              !.decorations = TRUE],
    view |-> "updateDestroy" ]

PluginMenu ==
  [ key |-> "menu",
    props |-> [NoProps EXCEPT !.editable = "true"],
    view |-> "update" ]

PluginReadOnly ==
  [ key |-> "readonly",
    props |-> [NoProps EXCEPT !.editable = "false",
                              !.handleScrollToSelection = "handler"],
    view |-> "none" ]

\* Plugin arrays by identity: "arr1" and "arr2" are two different arrays with
\* the same contents; "arr3" adds a plugin whose editable prop returns false.
PluginArrays == {"arr1", "arr2", "arr3"}

PluginsOf(arr) ==
  IF arr = "arr3" THEN << PluginBase, PluginMenu, PluginReadOnly >>
  ELSE << PluginBase, PluginMenu >>

\* Editor states that a caller can supply.
States ==
  [ doc : Docs, selection : Sels, storedMarks : BOOLEAN,
    plugins : PluginArrays, scrollToSelection : 0..MaxScroll ]

\* Direct props objects (without their state field, which is kept apart).
DirectProps ==
  { NoProps,
    [NoProps EXCEPT !.nodeViews = [n \in {"image"} |-> "imgB"],
                    !.attributes = << <<"class", "direct">>, <<"spellcheck", "off">> >>,
                    !.handleScrollToSelection = "handler",
                    !.handleDOMEvents = "handlers"] }

\* Platforms: which browser runs the view, and whether its style object has
\* an overflowAnchor property (automatic scroll anchoring).
Platforms ==
  { [browser |-> "chrome", overflowAnchor |-> TRUE],
    [browser |-> "ie",     overflowAnchor |-> FALSE],
    [browser |-> "safari", overflowAnchor |-> FALSE] }

(***************************************************************************)
(* Pure helpers of index.js                                                *)
(***************************************************************************)

\* The prop providers someProp visits, in its order: the direct props
\* first, then every plugin's props in array order.
Providers(v) ==
  << v.props >> \o [i \in 1..Len(PluginsOf(v.state.plugins)) |->
                      PluginsOf(v.state.plugins)[i].props]

\* getEditable in which the first provider that has an editable prop decides.
GetEditable_FirstProviderDecides(v) ==
  LET having == {i \in 1..Len(Providers(v)) : Providers(v)[i].editable # "unset"}
  IN having = {} \/
     Providers(v)[CHOOSE i \in having : \A j \in having : i <= j].editable # "false"

\* getEditable: someProp stops at the first provider whose editable
\* predicate returns exactly false; the view is editable when none does.
GetEditable(v) ==
  ~ \E i \in 1..Len(Providers(v)) :
        /\ Providers(v)[i].editable # "unset"
        /\ Providers(v)[i].editable = "false"

\* Lines 510-517 without the hasOwnProperty test.
RECURSIVE BuildFrom_LastWins(_, _, _)
BuildFrom_LastWins(ps, i, result) ==
  IF i > Len(ps) THEN result
  ELSE LET obj == ps[i].nodeViews
       IN BuildFrom_LastWins(ps, i + 1,
                    [n \in (DOMAIN result) \cup (DOMAIN obj) |->
                        IF n \in DOMAIN obj THEN obj[n] ELSE result[n]])

RECURSIVE BuildFrom(_, _, _)
BuildFrom(ps, i, result) ==
  IF i > Len(ps) THEN result
  ELSE LET obj == ps[i].nodeViews
           add == {n \in DOMAIN obj : n \notin DOMAIN result}
       IN BuildFrom(ps, i + 1,
                    [n \in (DOMAIN result) \cup add |->
                        IF n \in DOMAIN result THEN result[n] ELSE obj[n]])

\* buildNodeViews: the first provider of a name keeps it.
BuildNodeViews(v) == BuildFrom(Providers(v), 1, EmptyMap)

\* changedNodeViews that compares the names only.
ChangedNodeViews_NamesOnly(a, b) == DOMAIN a # DOMAIN b

\* changedNodeViews(a, b)
ChangedNodeViews(a, b) ==
  \/ \E p \in DOMAIN a : p \notin DOMAIN b \/ a[p] # b[p]
  \/ Cardinality(DOMAIN a) # Cardinality(DOMAIN b)

\* One attributes object merged into attrs (the body of computeDocDeco's
\* callback): class values are appended, any other name is set only while
\* attrs has no truthy value for it, contenteditable and nodeName never.
RECURSIVE MergeAttrs(_, _, _)
MergeAttrs(attrs, value, k) ==
  IF k > Len(value) THEN attrs
  ELSE LET attr == value[k][1]
           val  == value[k][2]
           next ==
             IF attr = "class"
               THEN [attrs EXCEPT !.class = Append(@, val)]
             ELSE IF /\ (attr \notin DOMAIN attrs.other \/ attrs.other[attr] = "")
                     /\ attr # "contenteditable"
                     /\ attr # "nodeName"
               THEN [attrs EXCEPT !.other =
                       [n \in (DOMAIN attrs.other) \cup {attr} |->
                          IF n = attr THEN val ELSE attrs.other[n]]]
             ELSE attrs
       IN MergeAttrs(next, value, k + 1)

RECURSIVE MergeProviders(_, _, _)
MergeProviders(attrs, ps, i) ==
  IF i > Len(ps) THEN attrs
  ELSE MergeProviders(MergeAttrs(attrs, ps[i].attributes, 1), ps, i + 1)

\* String(view.editable)
StringOf(editable) == IF editable THEN "true" ELSE "false"

\* Lines 474-486: the attrs object of a view with the given editable flag
\* and provider list.
DocAttrs(editable, ps) ==
  MergeProviders([ class |-> << "ProseMirror" >>,
                   contenteditable |-> StringOf(editable),
                   other |-> EmptyMap ],
                 ps, 1)

\* computeDocDeco: the single node decoration over the whole document.
ComputeDocDeco(v) ==
  << [ from |-> 0, to |-> DocSize(v.state.doc),
       attrs |-> DocAttrs(v.editable, Providers(v)) ] >>

\* viewDecorations: the decoration sets of the providers that have a
\* decorations prop, each computed from the state.
ViewDecorations(v) ==
  [ i \in {j \in 1..Len(Providers(v)) : Providers(v)[j].decorations} |->
      v.state.doc ]


\* selectionContextChanged(sel1, sel2)
Min(a, b) == IF a < b THEN a ELSE b

\* selectionContextChanged comparing the shared depths themselves.
SelectionContextChanged_ByDepth(sel1, sel2) == sel1.shared # sel2.shared

\* Lines 505-508
SelectionContextChanged(sel1, sel2) ==
  LET depth == Min(sel1.shared, sel2.shared)
  IN sel1.starts[depth + 1] # sel2.starts[depth + 1]

(***************************************************************************)
(* The root view descriptor (viewdesc.js), as far as index.js uses it      *)
(***************************************************************************)

\* docViewDesc(doc, outerDeco, innerDeco, dom, view): a fresh, live root
\* descriptor that renders doc with the given decorations.
DocViewDesc(doc, outerDeco, innerDeco) ==
  [ live |-> TRUE, node |-> doc, outerDeco |-> outerDeco, innerDeco |-> innerDeco ]

\* docView.matchesNode(doc, outerDeco, innerDeco)
MatchesNode(desc, doc, outerDeco, innerDeco) ==
  desc.node = doc /\ desc.outerDeco = outerDeco /\ desc.innerDeco = innerDeco

\* docView.update(doc, outerDeco, innerDeco, view) when it reports success.
DescUpdated(desc, doc, outerDeco, innerDeco) ==
  [desc EXCEPT !.node = doc, !.outerDeco = outerDeco, !.innerDeco = innerDeco]

\* docView.updateOuterDeco([]) followed by docView.destroy()
DescDestroyed(desc) == [desc EXCEPT !.outerDeco = << >>, !.live = FALSE]

\* this.docView = null (line 444)
NoDocView == [live |-> FALSE, node |-> "null", outerDeco |-> << >>, innerDeco |-> << >>]


(***************************************************************************)
(* State                                                                   *)
(***************************************************************************)

\* view:     the EditorView object's fields
\*             state, props (_props without its state), editable, nodeViews,
\*             docView, composing, observing (the DOM observer is started),
\*             pluginViews
\* platform: the browser the view runs in
\* trace:    the collaborator calls of the most recent operation, in order;
\*           each entry has the call's name, the nesting depth d of the
\*           updateStateInner activation that made it (0: the operation's
\*           own) and an index i (the plugin view or provider concerned)
\* last:     the operation whose calls trace holds (op), whether it returned
\*           normally (ok), and whether it repeated the updateState call
\*           before it with the same state (again); op = "idle" once the
\*           embedding application has read the log
\* supplied: the state most recently handed to the view
\* result:   what the most recent operation returned (value: << >> for
\*           undefined, << x >> for x) or threw (thrown: the error's name)
VARIABLES view, platform, trace, last, supplied, result

vars == << view, platform, trace, last, supplied, result >>

Undefined == [thrown |-> "none", value |-> << >>]

Ev(name, d, i) == [ev |-> name, d |-> d, i |-> i]

\* A handler in progress: the view, the calls made so far, and whether the
\* handler is still running normally (ok = FALSE: an exception propagates).
Start(v) == [v |-> v, t |-> << >>, ok |-> TRUE]

Log(m, name, d, i) == [m EXCEPT !.t = Append(@, Ev(name, d, i))]

Throw(m, d) == [Log(m, "throw", d, 0) EXCEPT !.ok = FALSE]

\* What a call reads from its environment and gets back from its
\* collaborators:
\*   updateOk      docView.update(...) returns true
\*   mouseDown     view.mouseDown is set
\*   domSelSame    domObserver.currentSelection.eq(root.getSelection())
\*   anchorOk      anchorInRightPlace(view)
\*   trackCleared  the selection had a focus node and the update wrote to it
\*                 (view.trackWrites was reset to null)
\*   handledBy     the provider (by its place in someProp's order) whose
\*                 handleScrollToSelection handler returns a truthy value;
\*                 the handlers before it return falsy ones; 0: none does
\*   records       the plugin views' update hooks record their arguments
\*   fault         the collaborator call that throws, if any
\*   reenter       the plugin view (by index) whose update hook calls
\*                 view.updateState(state) itself; at = 0: none does
Faults == {"none", "update", "rebuild", "selection"}

NoReenter == [at |-> 0, state |-> CHOOSE s \in States : TRUE]

DefaultIn ==
  [ updateOk |-> TRUE, mouseDown |-> FALSE, domSelSame |-> TRUE, anchorOk |-> TRUE,
    trackCleared |-> FALSE, handledBy |-> 0, records |-> FALSE,
    fault |-> "none", reenter |-> NoReenter ]

\* The pointer reads of a call: no button is down, or a drag selection is
\* under way and the DOM selection is where the observer last saw it.
PointerReads ==
  { [mouseDown |-> FALSE, domSelSame |-> TRUE, anchorOk |-> TRUE],
    [mouseDown |-> TRUE, domSelSame |-> TRUE, anchorOk |-> TRUE] }

\* The most providers someProp visits: the direct props and the plugins of
\* the longest plugin array.
MaxProviders == 1 + Len(PluginsOf("arr3"))

\* The inputs of a call in which nothing throws and no hook calls back.
PlainInputs ==
  { [DefaultIn EXCEPT !.updateOk = u, !.trackCleared = k, !.mouseDown = p.mouseDown,
                      !.domSelSame = p.domSelSame, !.anchorOk = p.anchorOk,
                      !.handledBy = h] :
      u \in BOOLEAN, k \in BOOLEAN, p \in PointerReads, h \in 0..MaxProviders }

(***************************************************************************)
(* updateStateInner, phase by phase                                        *)
(***************************************************************************)

RECURSIVE UpdateStateInner(_, _, _, _, _)

\* Lines 155-158: stored marks arriving during a composition end it.
StopComposition(m, state, d) ==
  IF state.storedMarks /\ m.v.composing
    THEN [Log(m, "clearComposition", d, 0) EXCEPT !.v.composing = FALSE]
    ELSE m

\* Lines 159-167: the new state is installed; on a reconfiguration the node
\* view registry is rebuilt and kept only when it differs from the old one.
\* (ensureListeners registers DOM event listeners, which are not part of
\* the modelled view.)
InstallState(m, state, reconfigured) ==
  LET withState == [m.v EXCEPT !.state = state]
      nodeViews == BuildNodeViews(withState)
  IN IF reconfigured /\ ChangedNodeViews(nodeViews, m.v.nodeViews)
       THEN [m EXCEPT !.v = [withState EXCEPT !.nodeViews = nodeViews]]
       ELSE [m EXCEPT !.v = withState]

\* redraw set on every reconfiguration, whether or not the node view
\* registry changed.
Redraw_OnEveryReconfiguration(v, state, reconfigured) == reconfigured

\* redraw (lines 160-165)
Redraw(v, state, reconfigured) ==
  /\ reconfigured
  /\ ChangedNodeViews(BuildNodeViews([v EXCEPT !.state = state]), v.nodeViews)

\* updateStateInner without line 169: the editable flag keeps its old value.
SetEditable_Skipped(m) == m

\* Line 169
SetEditable(m) == [m EXCEPT !.v.editable = GetEditable(m.v)]

\* Lines 173-174 with >= for >: an unchanged scroll counter counts as a
\* scroll request.
ScrollMode_NotStrict(reconfigured, state, prev) ==
  IF reconfigured THEN "reset"
  ELSE IF state.scrollToSelection >= prev.scrollToSelection THEN "to selection"
  ELSE "preserve"

\* Lines 173-174
ScrollMode(reconfigured, state, prev) ==
  IF reconfigured THEN "reset"
  ELSE IF state.scrollToSelection > prev.scrollToSelection THEN "to selection"
  ELSE "preserve"

\* Line 175 without the negation of matchesNode.
UpdateDoc_NoNegation(v, redraw, state, outerDeco, innerDeco) ==
  redraw \/ MatchesNode(v.docView, state.doc, outerDeco, innerDeco)

\* Line 175
UpdateDoc(v, redraw, state, outerDeco, innerDeco) ==
  redraw \/ ~ MatchesNode(v.docView, state.doc, outerDeco, innerDeco)

\* Line 176 without updateDoc.
UpdateSel_IgnoresUpdateDoc(updateSel, updateDoc, state, prev) ==
  updateSel \/ ~ SelEq(state.selection, prev.selection)

\* Line 176 (with updateSel's value so far)
UpdateSel(updateSel, updateDoc, state, prev) ==
  updateSel \/ updateDoc \/ ~ SelEq(state.selection, prev.selection)

\* Line 177 with the further condition that the tree is not patched.
TakeSnapshot_OnlyWhenNotPatched(scroll, updateSel, updateDoc) ==
  scroll = "preserve" /\ updateSel /\ ~ updateDoc /\ ~ platform.overflowAnchor

\* Line 177: whether storeScrollPos is called (it returns an object).  The
\* condition does not read updateDoc.
TakeSnapshot(scroll, updateSel, updateDoc) ==
  scroll = "preserve" /\ updateSel /\ ~ platform.overflowAnchor

\* Lines 195-197
Rebuild(m, state, outerDeco, innerDeco, in, d) ==
  LET gone == [Log(Log(m, "docView.updateOuterDeco", d, 0), "docView.destroy", d, 0)
                 EXCEPT !.v.docView = DescDestroyed(@)]
  IN IF m.v.docView = NoDocView THEN Throw(m, d)
     ELSE IF in.fault = "rebuild" THEN Throw(gone, d)
     ELSE [Log(gone, "docViewDesc", d, 0)
             EXCEPT !.v.docView = DocViewDesc(state.doc, outerDeco, innerDeco)]

\* Lines 194-198 with a failed docView.update raised to the caller.
PatchTree_FailureThrows(m, state, redraw, outerDeco, innerDeco, in, d) ==
  IF redraw THEN Rebuild(m, state, outerDeco, innerDeco, in, d)
  ELSE IF in.fault = "update" \/ ~ in.updateOk
    THEN Throw(Log(m, "docView.update", d, 0), d)
  ELSE [Log(m, "docView.update", d, 1)
          EXCEPT !.v.docView = DescUpdated(@, state.doc, outerDeco, innerDeco)]

\* Lines 194-198; the docView.update entry carries what the call returned
\* (i = 1: true, i = 0: false or nothing, because it threw).
PatchTree(m, state, redraw, outerDeco, innerDeco, in, d) ==
  IF redraw THEN Rebuild(m, state, outerDeco, innerDeco, in, d)
  ELSE IF in.fault = "update" THEN Throw(Log(m, "docView.update", d, 0), d)
  ELSE IF in.updateOk
    THEN [Log(m, "docView.update", d, 1)
            EXCEPT !.v.docView = DescUpdated(@, state.doc, outerDeco, innerDeco)]
  ELSE Rebuild(Log(m, "docView.update", d, 0), state, outerDeco, innerDeco, in, d)

\* Lines 186-187
ForceSelUpdate(v, updateDoc, prev, state) ==
  /\ updateDoc
  /\ platform.browser \in {"ie", "chrome"}
  /\ ~ v.composing
  /\ ~ SelEmpty(prev.selection)
  /\ ~ SelEmpty(state.selection)
  /\ SelectionContextChanged(prev.selection, state.selection)

\* Lines 193 and 199
ChromeKludge(updateDoc, in) ==
  updateDoc /\ platform.browser = "chrome" /\ in.trackCleared

\* Lines 205-211 without forceSelUpdate in the condition.
WriteSelection_CheapWhenPointerDown(m, force, in, d) ==
  IF ~ (in.mouseDown /\ in.domSelSame /\ in.anchorOk)
    THEN Log(m, "selectionToDOM", d, IF force THEN 1 ELSE 0)
    ELSE Log(Log(m, "syncNodeSelection", d, 0), "domObserver.setCurSelection", d, 0)

\* Lines 205-211: the full selection write (i = 1 when forced), or the
\* cheap path that only re-stamps the node selection.
WriteSelection(m, force, in, d) ==
  IF force \/ ~ (in.mouseDown /\ in.domSelSame /\ in.anchorOk)
    THEN IF in.fault = "selection"
           THEN Throw(Log(m, "selectionToDOM", d, IF force THEN 1 ELSE 0), d)
           ELSE Log(m, "selectionToDOM", d, IF force THEN 1 ELSE 0)
    ELSE Log(Log(m, "syncNodeSelection", d, 0), "domObserver.setCurSelection", d, 0)

\* Line 180
StopObserver(m, d) == [Log(m, "domObserver.stop", d, 0) EXCEPT !.v.observing = FALSE]

\* Lines 188-200
Patch(m, c, in, d) ==
  IF c.updateDoc
    THEN PatchTree(m, c.state, c.redraw, c.outerDeco, c.innerDeco, in, d)
    ELSE m

\* Lines 186-206, when the values read are recorded: forceSelUpdate as line
\* 186 computes it, whether line 199 sets it, and what this.mouseDown,
\* currentSelection.eq and anchorInRightPlace give.
Reads(m, context, kludge, in, d) ==
  IF m.ok /\ in.records
    THEN [m EXCEPT !.t = Append(@, [ev |-> "selection reads", d |-> d, i |-> 0,
                                    context |-> context, kludge |-> kludge,
                                    mouseDown |-> in.mouseDown,
                                    domSelSame |-> in.domSelSame,
                                    anchorOk |-> in.anchorOk])]
    ELSE m

\* Lines 205-211, reached only when the patch did not throw.
Write(m, force, in, d) == IF m.ok THEN WriteSelection(m, force, in, d) ELSE m

\* Line 212
StartObserver(m, d) ==
  IF m.ok THEN [Log(m, "domObserver.start", d, 0) EXCEPT !.v.observing = TRUE] ELSE m

\* Lines 179-213 with domObserver.start() moved before the selection write.
Resync_StartsEarly(m, c, in, d) ==
  Write(StartObserver(Patch(StopObserver(m, d), c, in, d), d),
        ForceSelUpdate(m.v, c.updateDoc, c.prev, c.state) \/ ChromeKludge(c.updateDoc, in),
        in, d)

\* Lines 179-213
Resync(m, c, in, d) ==
  StartObserver(
    Write(Reads(Patch(StopObserver(m, d), c, in, d),
                ForceSelUpdate(m.v, c.updateDoc, c.prev, c.state),
                ChromeKludge(c.updateDoc, in), in, d),
          ForceSelUpdate(m.v, c.updateDoc, c.prev, c.state) \/ ChromeKludge(c.updateDoc, in),
          in, d),
    d)

\* Lines 232-235: destroyPluginViews pops the views from the end.
RECURSIVE DestroyPluginViews(_, _)
DestroyPluginViews(m, d) ==
  IF Len(m.v.pluginViews) = 0 THEN m
  ELSE LET n      == Len(m.v.pluginViews)
           pv     == m.v.pluginViews[n]
           popped == [m EXCEPT !.v.pluginViews = SubSeq(@, 1, n - 1)]
       IN DestroyPluginViews(
            IF pv.hooks \in {"updateDestroy", "destroy"}
              THEN Log(popped, "pluginView.destroy", d, n) ELSE popped,
            d)

\* Lines 240-243
RECURSIVE CreatePluginViews(_, _, _)
CreatePluginViews(m, i, d) ==
  LET plugins == PluginsOf(m.v.state.plugins)
  IN IF i > Len(plugins) THEN m
     ELSE CreatePluginViews(
            IF plugins[i].view # "none"
              THEN [Log(m, "plugin.spec.view", d, i)
                      EXCEPT !.v.pluginViews =
                               Append(@, [key |-> plugins[i].key, hooks |-> plugins[i].view])]
              ELSE m,
            i + 1, d)

\* Line 247: one plugin view's update hook, pluginView.update(this,
\* prevState).  The hook is caller code: one that records what it is handed
\* leaves the view's state at the time of the call and prevState in its log
\* entry; one that calls view.updateState runs a nested updateStateInner on
\* the spot.
HookUpdate(m, i, prevState, in, d) ==
  LET called == IF in.records
                  THEN [m EXCEPT !.t = Append(@, [ev |-> "pluginView.update", d |-> d, i |-> i,
                                                  state |-> m.v.state, prev |-> prevState])]
                  ELSE Log(m, "pluginView.update", d, i)
  IN IF d = 0 /\ in.reenter.at = i
       THEN UpdateStateInner(called, in.reenter.state,
                             called.v.state.plugins # in.reenter.state.plugins,
                             DefaultIn, d + 1)
       ELSE called

\* Lines 245-248
RECURSIVE NotifyPluginViews(_, _, _, _, _)
NotifyPluginViews(m, i, prevState, in, d) ==
  IF ~ m.ok \/ i > Len(m.v.pluginViews) THEN m
  ELSE NotifyPluginViews(
         IF m.v.pluginViews[i].hooks \in {"updateDestroy", "update"}
           THEN HookUpdate(m, i, prevState, in, d) ELSE m,
         i + 1, prevState, in, d)

\* Lines 237-250 with the plugin arrays compared by content, not identity.
UpdatePluginViews_ByContent(m, hasPrev, prevState, in, d) ==
  IF ~ hasPrev \/ PluginsOf(prevState.plugins) # PluginsOf(m.v.state.plugins)
    THEN CreatePluginViews(DestroyPluginViews(m, d), 1, d)
    ELSE NotifyPluginViews(m, 1, prevState, in, d)

\* Lines 237-250
UpdatePluginViews(m, hasPrev, prevState, in, d) ==
  IF ~ hasPrev \/ prevState.plugins # m.v.state.plugins
    THEN CreatePluginViews(DestroyPluginViews(m, d), 1, d)
    ELSE NotifyPluginViews(m, 1, prevState, in, d)

\* Line 221: a handleScrollToSelection handler is called and returns.
Handler(m, d, i, returned) ==
  [m EXCEPT !.t = Append(@, [ev |-> "handleScrollToSelection", d |-> d, i |-> i,
                             returned |-> returned])]

\* Lines 221-226 with the result of someProp ignored: the default scrolling
\* follows a handler that returned true.
RECURSIVE ScrollToSelection_DefaultAlways(_, _, _, _)
ScrollToSelection_DefaultAlways(m, i, in, d) ==
  LET ps == Providers(m.v)
  IN IF i > Len(ps) THEN Log(m, "scrollRectIntoView", d, 0)
     ELSE IF ps[i].handleScrollToSelection = "unset"
       THEN ScrollToSelection_DefaultAlways(m, i + 1, in, d)
     ELSE IF in.handledBy = i
       THEN Log(Handler(m, d, i, TRUE), "scrollRectIntoView", d, 0)
     ELSE ScrollToSelection_DefaultAlways(Handler(m, d, i, FALSE), i + 1, in, d)

\* Lines 221-226: the handleScrollToSelection handlers in someProp order
\* (someProp skips the providers without one and stops at the first truthy
\* return value), then the default scrolling when none returned a truthy
\* value.
RECURSIVE ScrollToSelection(_, _, _, _)
ScrollToSelection(m, i, in, d) ==
  LET ps == Providers(m.v)
  IN IF i > Len(ps) THEN Log(m, "scrollRectIntoView", d, 0)
     ELSE IF ps[i].handleScrollToSelection = "unset" THEN ScrollToSelection(m, i + 1, in, d)
     ELSE IF in.handledBy = i THEN Handler(m, d, i, TRUE)
     ELSE ScrollToSelection(Handler(m, d, i, FALSE), i + 1, in, d)

\* Lines 217-229
ResolveScroll(m, scroll, oldScrollPos, in, d) ==
  IF scroll = "reset" THEN Log(m, "scrollTop = 0", d, 0)
  ELSE IF scroll = "to selection" THEN ScrollToSelection(m, 1, in, d)
  ELSE IF oldScrollPos THEN Log(m, "resetScrollPos", d, 0)
  ELSE m

\* The local variables of updateStateInner (lines 152-177) once they are
\* all decided: prev, redraw, the decorations, scroll, updateDoc, updateSel
\* and whether a scroll snapshot is taken (oldScrollPos).
Locals(prev, state, redraw, outerDeco, innerDeco, scroll, updateDoc, stored) ==
  [ prev |-> prev, state |-> state, redraw |-> redraw,
    outerDeco |-> outerDeco, innerDeco |-> innerDeco,
    scroll |-> scroll, updateDoc |-> updateDoc,
    updateSel |-> UpdateSel(stored, updateDoc, state, prev),
    oldScrollPos |-> TakeSnapshot(scroll, UpdateSel(stored, updateDoc, state, prev), updateDoc) ]

\* The locals without line 157: ending a composition does not set updateSel.
Decide_NoForcedResync(v, old, state, reconfigured, redraw, outerDeco, innerDeco) ==
  Locals(old.state, state, redraw, outerDeco, innerDeco,
         ScrollMode(reconfigured, state, old.state),
         UpdateDoc(v, redraw, state, outerDeco, innerDeco),
         FALSE)

\* The locals of lines 152-177 from the view with the state installed
Decide(v, old, state, reconfigured, redraw, outerDeco, innerDeco) ==
  Locals(old.state, state, redraw, outerDeco, innerDeco,
         ScrollMode(reconfigured, state, old.state),
         UpdateDoc(v, redraw, state, outerDeco, innerDeco),
         state.storedMarks /\ old.composing)

\* Line 177
Snapshot(m, c, d) == IF c.oldScrollPos THEN Log(m, "storeScrollPos", d, 0) ELSE m

\* Lines 179-213
Sync(m, c, in, d) == IF c.updateSel THEN Resync(m, c, in, d) ELSE m

\* Line 215 with this.state for prev.
Notify_PassesNewState(m, c, in, d) ==
  IF m.ok THEN UpdatePluginViews(m, TRUE, m.v.state, in, d) ELSE m

\* Line 215
Notify(m, c, in, d) == IF m.ok THEN UpdatePluginViews(m, TRUE, c.prev, in, d) ELSE m

\* Lines 217-229
Scroll(m, c, in, d) == IF m.ok THEN ResolveScroll(m, c.scroll, c.oldScrollPos, in, d) ELSE m

\* Lines 177-229 with the scroll resolution moved before updatePluginViews.
Apply_ScrollFirst(m, c, in, d) ==
  Notify(Scroll(Sync(Snapshot(m, c, d), c, in, d), c, in, d), c, in, d)

\* Lines 177-229, with the locals c decided
Apply(m, c, in, d) == Scroll(Notify(Sync(Snapshot(m, c, d), c, in, d), c, in, d), c, in, d)

\* Lines 171-229, with the state installed and editable set (ready); old
\* is the view as the call found it.  On a destroyed view this.docView is
\* null: line 175 throws a TypeError when it gets to call matchesNode, and
\* line 195 does when redraw is set.
Render(ready, old, state, reconfigured, in, d) ==
  IF ready.v.docView = NoDocView /\ ~ Redraw(old, state, reconfigured)
    THEN Throw(ready, d)
  ELSE
  Apply(ready,
        Decide(ready.v, old, state, reconfigured, Redraw(old, state, reconfigured),
               ComputeDocDeco(ready.v), ViewDecorations(ready.v)),
        in, d)

\* Lines 151-230
UpdateStateInner(m, state, reconfigured, in, d) ==
  Render(SetEditable(InstallState(StopComposition(m, state, d), state, reconfigured)),
         m.v, state, reconfigured, in, d)

\* Lines 147-149
UpdateState(m, state, in, d) ==
  UpdateStateInner(m, state, m.v.state.plugins # state.plugins, in, d)

\* Lines 122-126 with the reconfigured flag computed as updateState computes
\* it, from the identity of the plugins array.
Update_ReconfiguredByPlugins(m, props, state, in, d) ==
  UpdateStateInner([m EXCEPT !.v.props = props], state,
                   m.v.state.plugins # state.plugins, in, d)

\* Lines 122-126
Update(m, props, state, in, d) ==
  UpdateStateInner([m EXCEPT !.v.props = props], state, TRUE, in, d)

\* Line 295
FocusDom(m) == IF m.v.editable THEN Log(m, "focusPreventScroll", 0, 0) ELSE m

\* Lines 293-298
Focus(m, in) ==
  StartObserver(WriteSelection(FocusDom(StopObserver(m, 0)), FALSE, in, 0), 0)

\* Lines 69-74 of the constructor, one assignment each
WithEditable(v) == [v EXCEPT !.editable = GetEditable(v)]

WithNodeViews(v) == [v EXCEPT !.nodeViews = BuildNodeViews(v)]

WithDocView(v) ==
  [v EXCEPT !.docView = DocViewDesc(v.state.doc, ComputeDocDeco(v), ViewDecorations(v))]

\* Lines 37-89: the view after construction (initInput creates and starts
\* the DOM observer).
Construct(props, state) ==
  UpdatePluginViews(
    Start(WithDocView(WithNodeViews(WithEditable(
      [ state |-> state, props |-> props, editable |-> TRUE,
        nodeViews |-> EmptyMap, docView |-> DocViewDesc(state.doc, << >>, << >>),
        composing |-> FALSE, observing |-> TRUE, pluginViews |-> << >> ])))),
    FALSE, state, DefaultIn, 0)

\* Lines 134-140: setProps copies the current props, sets state to the
\* view's state, overrides both with the given partial props, and updates.
SetProps(m, partial, in, d) ==
  Update(m,
         [n \in DOMAIN NoProps |->
            IF n \in DOMAIN partial THEN partial[n] ELSE m.v.props[n]],
         IF "state" \in DOMAIN partial THEN partial.state ELSE m.v.state,
         in, d)

\* The states next to s: those that differ from s in at most one field.
NearStates(s) ==
  { x \in States :
      Cardinality({ f \in DOMAIN s : x[f] # s[f] }) <= 1 }

\* Partial props objects handed to setProps: nothing, single props, a props
\* object that sets what the second direct props object sets, and a state.
PartialProps(s) ==
  { EmptyMap,
    [editable |-> "unset"],
    [nodeViews |-> EmptyMap, attributes |-> << >>, handleScrollToSelection |-> "unset",
     handleDOMEvents |-> "unset"],
    [nodeViews |-> [n \in {"image"} |-> "imgB"],
     attributes |-> << <<"class", "direct">>, <<"spellcheck", "off">> >>,
     handleScrollToSelection |-> "handler",
     handleDOMEvents |-> "handlers"] }
  \cup { [state |-> x] : x \in NearStates(s) }

(***************************************************************************)
(* Operations                                                              *)
(***************************************************************************)

Has(t, name, d) == \E k \in 1..Len(t) : t[k].ev = name /\ t[k].d = d

\* The inputs a call reads, found from the calls t0 it makes under the
\* default inputs: an input the call never looks at is not enumerated.
InputsFor(t0) ==
  { in \in PlainInputs :
      /\ ~ in.updateOk => Has(t0, "docView.update", 0)
      /\ in.trackCleared =>
           /\ platform.browser = "chrome"
           /\ Has(t0, "docView.update", 0) \/ Has(t0, "docView.destroy", 0)
      /\ in.mouseDown =>
           /\ ~ in.trackCleared
           /\ \E k \in 1..Len(t0) :
                t0[k].ev = "selectionToDOM" /\ t0[k].d = 0 /\ t0[k].i = 0
      /\ in.handledBy # 0 =>
           \E k \in 1..Len(t0) :
             t0[k].ev = "handleScrollToSelection" /\ t0[k].d = 0 /\ t0[k].i = in.handledBy }

Idle == [op |-> "idle", ok |-> TRUE, again |-> FALSE]

Finish(m, op, state) ==
  /\ view' = m.v
  /\ trace' = m.t
  /\ last' = [op |-> op, ok |-> m.ok, again |-> FALSE]
  /\ supplied' = state
  /\ result' = IF m.ok THEN Undefined ELSE [thrown |-> "Error", value |-> << >>]
  /\ UNCHANGED platform

Init ==
  /\ platform \in Platforms
  /\ \E props \in DirectProps, state \in States :
       LET m == Construct(props, state)
       IN /\ view = m.v
          /\ trace = m.t
          /\ last = [op |-> "construct", ok |-> TRUE, again |-> FALSE]
          /\ supplied = state
          /\ result = Undefined

\* The embedding application has read the log and the result of the last
\* operation.  An
\* operation that threw ends the behaviour: the exception is the caller's.
\* A destroyed view is followed no further than DoDestroy and
\* DoUpdateStateDestroyed go.
Observed ==
  /\ last.op # "idle"
  /\ last.ok
  /\ view.docView # NoDocView
  /\ trace' = << >>
  /\ last' = Idle
  /\ result' = Undefined
  /\ UNCHANGED << view, platform, supplied >>

DoUpdateState ==
  /\ last.op = "idle"
  /\ \E state \in States :
       \E in \in InputsFor(UpdateState(Start(view), state, DefaultIn, 0).t) :
         Finish(UpdateState(Start(view), state, in, 0), "updateState", state)

\* The caller repeats the updateState call that has just returned, with the
\* same state.
DoUpdateStateAgain ==
  /\ last.op = "updateState" /\ last.ok /\ ~ last.again
  /\ \E in \in InputsFor(UpdateState(Start(view), supplied, DefaultIn, 0).t) :
       LET m == UpdateState(Start(view), supplied, in, 0)
       IN /\ view' = m.v
          /\ trace' = m.t
          /\ last' = [op |-> "updateState", ok |-> m.ok, again |-> TRUE]
          /\ UNCHANGED << platform, supplied, result >>

DoUpdate ==
  /\ last.op = "idle"
  /\ \E props \in DirectProps, state \in NearStates(view.state) :
       \E in \in InputsFor(Update(Start(view), props, state, DefaultIn, 0).t) :
         Finish(Update(Start(view), props, state, in, 0), "update", state)

DoSetProps ==
  /\ last.op = "idle"
  /\ \E partial \in PartialProps(view.state) :
       \E in \in InputsFor(SetProps(Start(view), partial, DefaultIn, 0).t) :
         Finish(SetProps(Start(view), partial, in, 0), "setProps",
                IF "state" \in DOMAIN partial THEN partial.state ELSE view.state)

DoFocus ==
  /\ last.op = "idle"
  /\ Finish(Focus(Start(view), DefaultIn), "focus", supplied)

\* The platform starts or ends a text composition (input.js sets
\* view.composing from the composition events).
CompositionStart ==
  /\ last.op = "idle"
  /\ ~ view.composing
  /\ view' = [view EXCEPT !.composing = TRUE]
  /\ UNCHANGED << platform, trace, last, supplied, result >>

CompositionEnd ==
  /\ last.op = "idle"
  /\ view.composing
  /\ view' = [view EXCEPT !.composing = FALSE]
  /\ UNCHANGED << platform, trace, last, supplied, result >>

\* What docView.posFromDOM(node, offset, bias) can give back: null,
\* undefined, or a document position.
Lookups(doc) ==
  { [found |-> f, pos |-> 0] : f \in {"null", "undefined"} }
    \cup { [found |-> "number", pos |-> n] : n \in {0, 1, DocSize(doc)} }

\* Lines 406-410: the value posAtDOM returns or the error it throws.
PosAtDOMResult(lookup) ==
  IF lookup.found \in {"null", "undefined"}
    THEN [thrown |-> "RangeError", value |-> << >>]
    ELSE [thrown |-> "none", value |-> << lookup.pos >>]

\* Lines 406-410
PosFromDOM(m, lookup) ==
  [m EXCEPT !.t = Append(@, [ev |-> "docView.posFromDOM", d |-> 0, i |-> 0,
                             returned |-> lookup])]

\* Lines 406-410 throwing on every falsy lookup result.
PosAtDOM_ThrowsOnFalsy(m, lookup) ==
  IF lookup.found = "number" /\ lookup.pos # 0
    THEN PosFromDOM(m, lookup)
    ELSE Throw(PosFromDOM(m, lookup), 0)

\* Lines 406-410
PosAtDOM(m, lookup) ==
  IF PosAtDOMResult(lookup).thrown = "none"
    THEN PosFromDOM(m, lookup)
    ELSE Throw(PosFromDOM(m, lookup), 0)

DoPosAtDOM ==
  /\ last.op = "idle"
  /\ view.docView # NoDocView
  /\ \E lookup \in Lookups(view.state.doc) :
       /\ view' = PosAtDOM(Start(view), lookup).v
       /\ trace' = PosAtDOM(Start(view), lookup).t
       /\ last' = [op |-> "posAtDOM", ok |-> PosAtDOM(Start(view), lookup).ok, again |-> FALSE]
       /\ result' = IF PosAtDOM(Start(view), lookup).ok
                       THEN [thrown |-> "none", value |-> << lookup.pos >>]
                       ELSE [thrown |-> "RangeError", value |-> << >>]
       /\ UNCHANGED << platform, supplied >>

\* Lines 439-443 for a view that is not mounted: the editor's DOM node is
\* taken out of its parent, the root descriptor is destroyed, and docView is
\* set to null.
DropDocView(m) ==
  [Log(Log(m, "removeChild", 0, 0), "docView.destroy", 0, 0) EXCEPT !.v.docView = NoDocView]

\* Line 435: destroyInput stops the DOM observer and removes the listeners.
DestroyInput(m) == [Log(m, "destroyInput", 0, 0) EXCEPT !.v.observing = FALSE]

\* Lines 433-445 without line 436.
Destroy_KeepsPluginViews(m) ==
  IF m.v.docView = NoDocView THEN m
  ELSE DropDocView(DestroyInput(m))

\* Lines 435-444 without the guard of line 434.
Destroy_Unguarded(m) == DropDocView(DestroyPluginViews(DestroyInput(m), 0))

\* Lines 433-445
Destroy(m) ==
  IF m.v.docView = NoDocView THEN m
  ELSE DropDocView(DestroyPluginViews(DestroyInput(m), 0))

\* destroy(), on a view in use or on one that was just destroyed.
DoDestroy ==
  /\ last.op \in {"idle", "destroy"}
  /\ Finish(Destroy(Start(view)), "destroy", supplied)

\* updateState on a view that was just destroyed.
DoUpdateStateDestroyed ==
  /\ last.op = "destroy"
  /\ \E state \in NearStates(view.state) :
       Finish(UpdateState(Start(view), state, DefaultIn, 0), "updateState", state)

\* updateState on a view whose plugin views record what their update hook
\* is handed.
DoUpdateStateRecorded ==
  /\ last.op = "idle"
  /\ \E state \in NearStates(view.state) :
       \E in \in InputsFor(UpdateState(Start(view), state, DefaultIn, 0).t) :
         Finish(UpdateState(Start(view), state, [in EXCEPT !.records = TRUE], 0),
                "updateState", state)

\* updateState in which one collaborator call throws.
FaultInputs ==
  { [DefaultIn EXCEPT !.fault = f, !.updateOk = u] :
      f \in Faults \ {"none"}, u \in BOOLEAN }

DoUpdateStateFault ==
  /\ last.op = "idle"
  /\ \E state \in NearStates(view.state), in \in FaultInputs :
       /\ ~ UpdateState(Start(view), state, in, 0).ok
       /\ Finish(UpdateState(Start(view), state, in, 0), "updateState", state)

\* focus in which selectionToDOM throws.
DoFocusFault ==
  /\ last.op = "idle"
  /\ Finish(Focus(Start(view), [DefaultIn EXCEPT !.fault = "selection"]), "focus", supplied)

\* updateState during which the update hook of plugin view number at calls
\* view.updateState(nested).  The hook runs when the plugins stay the same
\* and that plugin view has an update hook; nested is then the state last
\* handed to the view.
DoUpdateStateReentrant ==
  /\ last.op = "idle"
  /\ \E state \in NearStates(view.state), at \in 1..Len(view.pluginViews) :
       /\ state.plugins = view.state.plugins
       /\ view.pluginViews[at].hooks \in {"updateDestroy", "update"}
       /\ \E nested \in NearStates(state) :
            Finish(UpdateState(Start(view), state,
                               [DefaultIn EXCEPT !.reenter = [at |-> at, state |-> nested]], 0),
                   "updateState", nested)

Next ==
  \/ Observed
  \/ DoUpdateState
  \/ DoUpdateStateAgain
  \/ DoUpdate
  \/ DoSetProps
  \/ DoFocus
  \/ DoPosAtDOM
  \/ CompositionStart
  \/ CompositionEnd

Spec == Init /\ [][Next]_vars


NextFault == Next \/ DoUpdateStateFault \/ DoFocusFault

\* The view with collaborators that may throw.
SpecFault == Init /\ [][NextFault]_vars

NextLifecycle == Next \/ DoDestroy \/ DoUpdateStateDestroyed

\* The view with destroy() among its operations.
SpecLifecycle == Init /\ [][NextLifecycle]_vars

\* ---------------------------------------------------------------------
\* someProp, computeDocDeco and buildNodeViews as functions of the provider
\* list (the direct props followed by the props of the plugins).

\* Values a prop can have, and the results f can return.
PropValues == {"undefined", "null", "false", "zero", "true", "object"}

Truthy(value) == value \in {"true", "object"}

\* The callbacks someProp is given: none, the one of getEditable (line 502),
\* and one that returns nothing (lines 478, 512).
Callbacks == {"absent", "isFalse", "visit"}

CallF(f, prop) ==
  IF f = "isFalse" THEN (IF prop = "false" THEN "true" ELSE "false")
  ELSE "undefined"

\* Lines 269-277 with prop !== undefined for prop != null.
RECURSIVE SomeProp_CallsOnNull(_, _, _, _)
SomeProp_CallsOnNull(ps, f, i, t) ==
  IF i > Len(ps) THEN [t |-> t, value |-> << >>]
  ELSE LET prop == ps[i].custom
           read == Append(t, Ev("props[propName]", 0, i))
       IN IF prop = "undefined" THEN SomeProp_CallsOnNull(ps, f, i + 1, read)
          ELSE IF f = "absent"
            THEN IF Truthy(prop) THEN [t |-> read, value |-> << prop >>]
                 ELSE SomeProp_CallsOnNull(ps, f, i + 1, read)
          ELSE IF Truthy(CallF(f, prop))
            THEN [t |-> Append(read, Ev("f", 0, i)), value |-> << CallF(f, prop) >>]
          ELSE SomeProp_CallsOnNull(ps, f, i + 1, Append(read, Ev("f", 0, i)))

\* Lines 269-277: someProp over the provider list ps, from provider i on; t
\* is the log of the props read and of the calls of f.
RECURSIVE SomeProp(_, _, _, _)
SomeProp(ps, f, i, t) ==
  IF i > Len(ps) THEN [t |-> t, value |-> << >>]
  ELSE LET prop == ps[i].custom
           read == Append(t, Ev("props[propName]", 0, i))
       IN IF prop \in {"undefined", "null"} THEN SomeProp(ps, f, i + 1, read)
          ELSE IF f = "absent"
            THEN IF Truthy(prop) THEN [t |-> read, value |-> << prop >>]
                 ELSE SomeProp(ps, f, i + 1, read)
          ELSE IF Truthy(CallF(f, prop))
            THEN [t |-> Append(read, Ev("f", 0, i)), value |-> << CallF(f, prop) >>]
          ELSE SomeProp(ps, f, i + 1, Append(read, Ev("f", 0, i)))

\* Provider lists: the direct props and up to three plugins.
ProviderLists(values) ==
  UNION { [1..n -> values] : n \in 1..MaxProviders }

\* The attributes objects a provider can supply.
AttributeObjects ==
  { << >>,
    << <<"title", "">> >>,
    << <<"title", "x">> >>,
    << <<"title", "y">> >>,
    << <<"class", "x">> >>,
    << <<"class", "y">>, <<"title", "x">> >>,
    << <<"contenteditable", "x">> >>,
    << <<"nodeName", "x">>, <<"title", "y">> >> }

\* The nodeViews objects a provider can supply.
NodeViewObjects ==
  UNION { [names -> {"viewA", "viewB"}] : names \in SUBSET {"image", "para"} }

PureInputs ==
  { [fn |-> "someProp", f |-> f, ps |-> ps] :
      f \in Callbacks,
      ps \in ProviderLists({[custom |-> value] : value \in PropValues}) }
  \cup
  { [fn |-> "computeDocDeco", editable |-> e, ps |-> ps] :
      e \in BOOLEAN,
      ps \in ProviderLists({[attributes |-> a] : a \in AttributeObjects}) }
  \cup
  { [fn |-> "buildNodeViews", f |-> "visit", ps |-> ps] :
      ps \in ProviderLists({[nodeViews |-> o] : o \in NodeViewObjects}) }
  \cup
  { [fn |-> "changedNodeViews", a |-> a, b |-> b] :
      a \in NodeViewObjects, b \in NodeViewObjects }

InitPure ==
  /\ platform = CHOOSE p \in Platforms : TRUE
  /\ view = Construct(NoProps, CHOOSE state \in States : TRUE).v
  /\ trace = << >>
  /\ last = Idle
  /\ supplied \in PureInputs
  /\ result = Undefined

DoSomeProp ==
  /\ last.op = "idle"
  /\ supplied.fn = "someProp"
  /\ trace' = SomeProp(supplied.ps, supplied.f, 1, << >>).t
  /\ result' = [thrown |-> "none",
                value |-> SomeProp(supplied.ps, supplied.f, 1, << >>).value]
  /\ last' = [op |-> "someProp", ok |-> TRUE, again |-> FALSE]
  /\ UNCHANGED << view, platform, supplied >>

DoComputeDocDeco ==
  /\ last.op = "idle"
  /\ supplied.fn = "computeDocDeco"
  /\ trace' = << >>
  /\ result' = [thrown |-> "none",
                value |-> << DocAttrs(supplied.editable, supplied.ps) >>]
  /\ last' = [op |-> "computeDocDeco", ok |-> TRUE, again |-> FALSE]
  /\ UNCHANGED << view, platform, supplied >>

DoBuildNodeViews ==
  /\ last.op = "idle"
  /\ supplied.fn = "buildNodeViews"
  /\ trace' = << >>
  /\ result' = [thrown |-> "none",
                value |-> << BuildFrom(supplied.ps, 1, EmptyMap) >>]
  /\ last' = [op |-> "buildNodeViews", ok |-> TRUE, again |-> FALSE]
  /\ UNCHANGED << view, platform, supplied >>

DoChangedNodeViews ==
  /\ last.op = "idle"
  /\ supplied.fn = "changedNodeViews"
  /\ trace' = << >>
  /\ result' = [thrown |-> "none",
                value |-> << ChangedNodeViews(supplied.a, supplied.b) >>]
  /\ last' = [op |-> "changedNodeViews", ok |-> TRUE, again |-> FALSE]
  /\ UNCHANGED << view, platform, supplied >>

NextPure == DoSomeProp \/ DoComputeDocDeco \/ DoBuildNodeViews \/ DoChangedNodeViews

\* The three functions applied to provider lists drawn from bounded sets.
SpecPure == InitPure /\ [][NextPure]_vars

\* ---------------------------------------------------------------------
\* dispatch

\* Transactions: what state.apply(tr) makes of the document, the selection
\* and the stored marks, and whether the transaction asks for the selection
\* to be scrolled into view.
Transactions(state) ==
  { tr \in [ doc : Docs, selection : Sels, storedMarks : BOOLEAN,
             scrolledIntoView : BOOLEAN ] :
      /\ Cardinality({ f \in {"doc", "selection", "storedMarks"} : tr[f] # state[f] })
           + (IF tr.scrolledIntoView THEN 1 ELSE 0) <= 1
      /\ tr.scrolledIntoView => state.scrollToSelection < MaxScroll }

\* EditorState.apply: the plugins are kept, the scroll counter is
\* incremented by a transaction that scrolls into view.
StateApply(state, tr) ==
  [ doc |-> tr.doc, selection |-> tr.selection, storedMarks |-> tr.storedMarks,
    plugins |-> state.plugins,
    scrollToSelection |-> state.scrollToSelection + (IF tr.scrolledIntoView THEN 1 ELSE 0) ]

\* Line 468: the callback is called with the view as this.
DispatchTransaction(m, tr, d) ==
  [m EXCEPT !.t = Append(@, [ev |-> "dispatchTransaction", d |-> d, i |-> 0,
                             this |-> "view", tr |-> tr])]

\* Line 469: this.state.apply(tr)
ApplyTransaction(m, tr, d) ==
  [m EXCEPT !.t = Append(@, [ev |-> "state.apply", d |-> d, i |-> 0, tr |-> tr])]

\* Lines 466-470 with the default also taken after the callback.
Dispatch_AlsoApplies(m, tr, in, d) ==
  IF m.v.props.dispatchTransaction
    THEN UpdateState(ApplyTransaction(DispatchTransaction(m, tr, d), tr, d),
                     StateApply(m.v.state, tr), in, d)
    ELSE UpdateState(ApplyTransaction(m, tr, d), StateApply(m.v.state, tr), in, d)

\* Lines 466-470
Dispatch(m, tr, in, d) ==
  IF m.v.props.dispatchTransaction
    THEN DispatchTransaction(m, tr, d)
    ELSE UpdateState(ApplyTransaction(m, tr, d), StateApply(m.v.state, tr), in, d)

DoDispatch ==
  /\ last.op = "idle"
  /\ \E tr \in Transactions(view.state) :
       \E in \in InputsFor(Dispatch(Start(view), tr, DefaultIn, 0).t) :
         Finish(Dispatch(Start(view), tr, in, 0), "dispatch",
                IF view.props.dispatchTransaction THEN supplied
                ELSE StateApply(view.state, tr))

\* setProps that sets or clears the dispatchTransaction prop.
DoSetDispatchTransaction ==
  /\ last.op = "idle"
  /\ \E callback \in BOOLEAN :
       /\ callback # view.props.dispatchTransaction
       /\ Finish(SetProps(Start(view), [dispatchTransaction |-> callback], DefaultIn, 0),
                 "setProps", view.state)

NextDispatch == Observed \/ DoDispatch \/ DoSetDispatchTransaction \/ CompositionStart

\* The view with transactions dispatched to it.
SpecDispatch == Init /\ [][NextDispatch]_vars

\* ---------------------------------------------------------------------
\* Selections across blocks and every outcome of the pointer reads.

\* The selections of Sels and two that span both paragraphs, whose shared
\* depth is 0.
WideSels ==
  Sels \cup
  { [anchor |-> 3, head |-> 8, shared |-> 0, starts |-> << 0, 1 >>],
    [anchor |-> 8, head |-> 3, shared |-> 0, starts |-> << 0, 8 >>] }

\* The states next to s, with the wider choice of selections.
WideNearStates(s) ==
  { x \in [ doc : Docs, selection : WideSels, storedMarks : BOOLEAN,
            plugins : {s.plugins}, scrollToSelection : {s.scrollToSelection} ] :
      Cardinality({ f \in {"doc", "selection", "storedMarks"} : x[f] # s[f] }) <= 2 }

\* Line 205: the outcomes of this.mouseDown && currentSelection.eq(...) &&
\* anchorInRightPlace(this) that differ in what is evaluated.
AllPointerReads ==
  { [mouseDown |-> FALSE, domSelSame |-> TRUE, anchorOk |-> TRUE],
    [mouseDown |-> TRUE, domSelSame |-> FALSE, anchorOk |-> TRUE],
    [mouseDown |-> TRUE, domSelSame |-> TRUE, anchorOk |-> FALSE],
    [mouseDown |-> TRUE, domSelSame |-> TRUE, anchorOk |-> TRUE] }

\* updateState with the values the selection resync reads recorded.
DoUpdateStateSelection ==
  /\ last.op = "idle"
  /\ \E state \in WideNearStates(view.state), p \in AllPointerReads, k \in BOOLEAN :
       /\ k => platform.browser = "chrome"
       /\ Finish(UpdateState(Start(view), state,
                             [DefaultIn EXCEPT !.records = TRUE, !.trackCleared = k,
                                               !.mouseDown = p.mouseDown,
                                               !.domSelSame = p.domSelSame,
                                               !.anchorOk = p.anchorOk], 0),
                 "updateState", state)

NextSelection == Observed \/ DoUpdateStateSelection \/ CompositionStart

\* The view under updateState calls that change document, selection and
\* stored marks, with the reads of the selection resync recorded.
SpecSelection == Init /\ [][NextSelection]_vars

\* ---------------------------------------------------------------------
\* The props objects: view.objects holds the props objects that exist (the
\* ones the caller supplied and the ones the view made), each with its state
\* field, and view.ref tells which of them this._props is.

\* Most props objects followed.
MaxObjects == 4

\* A props object with the given props and state field.
ObjectOf(props, state) ==
  [n \in DOMAIN props \cup {"state"} |-> IF n = "state" THEN state ELSE props[n]]

\* The props of a props object without its state field.
PropsOf(object) == [n \in DOMAIN NoProps |-> object[n]]

\* Lines 107-115 returning this._props as it is.
PropsGetter_NoRefresh(v) == v

\* Lines 107-115: the props getter.  A stale this._props is replaced by a
\* copy whose state is the current one; the object returned is
\* objects[ref] of the result.
PropsGetter(v) ==
  IF v.objects[v.ref].state # v.state
    THEN [v EXCEPT !.objects = Append(@, [@[v.ref] EXCEPT !.state = v.state]),
                   !.ref = Len(v.objects) + 1]
    ELSE v

\* Lines 122-126 with the props object the caller hands over.
UpdateObject(m, object, in, d) ==
  Update([m EXCEPT !.v.objects = Append(@, object), !.v.ref = Len(m.v.objects) + 1],
         PropsOf(object), object.state, in, d)

\* Object.assign({}, base, partial)
Assign(base, partial) ==
  [n \in DOMAIN base |-> IF n \in DOMAIN partial THEN partial[n] ELSE base[n]]

\* Lines 134-140 without line 137: the copy keeps this._props.state.
SetPropsObject_KeepsPropsState(m, partial, in, d) ==
  UpdateObject(m, Assign(m.v.objects[m.v.ref], partial), in, d)

\* Lines 134-140: updated is a new object with the props of this._props,
\* the current state, and then the given props.
SetPropsObject(m, partial, in, d) ==
  UpdateObject(m, Assign([m.v.objects[m.v.ref] EXCEPT !.state = m.v.state], partial), in, d)

\* The documents a caller moves between while it changes props.
PropsStates(s) == { [s EXCEPT !.doc = doc] : doc \in Docs }

\* The partial props objects handed to setProps.
PropsPartials(s) ==
  { EmptyMap,
    [handleScrollToSelection |-> "handler"],
    [handleScrollToSelection |-> "unset"] }
  \cup { [state |-> x] : x \in PropsStates(s) }

InitProps ==
  /\ platform = CHOOSE p \in Platforms : p.browser = "chrome"
  /\ \E state \in {x \in States : x.plugins = "arr1" /\ x.scrollToSelection = 0 /\
                                  ~ x.storedMarks /\ SelEmpty(x.selection)} :
       /\ view = [n \in DOMAIN Construct(NoProps, state).v \cup {"objects", "ref"} |->
                    IF n = "objects" THEN << ObjectOf(NoProps, state) >>
                    ELSE IF n = "ref" THEN 1
                    ELSE Construct(NoProps, state).v[n]]
       /\ trace = Construct(NoProps, state).t
       /\ supplied = state
  /\ last = [op |-> "construct", ok |-> TRUE, again |-> FALSE]
  /\ result = Undefined

\* The caller reads view.props.
DoReadProps ==
  /\ last.op = "idle"
  /\ Len(view.objects) < MaxObjects
  /\ view' = PropsGetter(view)
  /\ trace' = << >>
  /\ last' = [op |-> "props", ok |-> TRUE, again |-> FALSE]
  /\ result' = [thrown |-> "none", value |-> << PropsGetter(view).ref >>]
  /\ UNCHANGED << platform, supplied >>

DoUpdateStateProps ==
  /\ last.op = "idle"
  /\ \E state \in PropsStates(view.state) :
       Finish(UpdateState(Start(view), state, DefaultIn, 0), "updateState", state)

DoUpdateObject ==
  /\ last.op = "idle"
  /\ Len(view.objects) < MaxObjects
  /\ \E object \in { ObjectOf(props, state) :
                       props \in {NoProps, [NoProps EXCEPT !.handleScrollToSelection = "handler"]},
                       state \in PropsStates(view.state) } :
       Finish(UpdateObject(Start(view), object, DefaultIn, 0), "update", object.state)

DoSetPropsObject ==
  /\ last.op = "idle"
  /\ Len(view.objects) < MaxObjects
  /\ \E partial \in PropsPartials(view.state) :
       /\ Finish(SetPropsObject(Start(view), partial, DefaultIn, 0), "setProps",
                 IF "state" \in DOMAIN partial THEN partial.state ELSE view.state)

NextProps ==
  Observed \/ DoReadProps \/ DoUpdateStateProps \/ DoUpdateObject \/ DoSetPropsObject

\* The view with its props objects, under reads of view.props, updateState,
\* update and setProps.
SpecProps == InitProps /\ [][NextProps]_vars

NextHooks == Observed \/ DoUpdateStateRecorded \/ CompositionStart

\* The view with plugin views that record the arguments of their hooks.
SpecHooks == Init /\ [][NextHooks]_vars

NextReentrant == Observed \/ DoUpdateStateReentrant \/ CompositionStart

\* The view with plugin views whose update hook may call updateState.
SpecReentrant == Init /\ [][NextReentrant]_vars


(***************************************************************************)
(* Properties                                                              *)
(***************************************************************************)

\* The operations that run updateStateInner.
Applies == {"updateState", "update", "setProps"}

TreeCalls ==
  {"docView.update", "docView.updateOuterDeco", "docView.destroy", "docViewDesc"}

SelectionCalls == {"selectionToDOM", "syncNodeSelection"}

PluginCalls == {"pluginView.update", "pluginView.destroy", "plugin.spec.view"}

ScrollCalls ==
  {"scrollTop = 0", "scrollRectIntoView", "handleScrollToSelection", "resetScrollPos"}

\* The positions in the log t of the calls with one of the given names.
Calls(t, names) == {k \in DOMAIN t : t[k].ev \in names}

Made(t, names) == Calls(t, names) # {}

\* C1: after construction and after every updateState / update / setProps
\* call that returns, in any sequence, the view is consistent with the last
\* supplied state: view.state is that state, view.editable is the
\* editability computed from it, and view.docView is a live root descriptor
\* that renders state.doc with the outer and inner decorations computed from
\* that state.
C1_ViewConsistent ==
  last.ok =>
    /\ view.state = supplied
    /\ view.editable = GetEditable(view)
    /\ view.docView.live
    /\ MatchesNode(view.docView, view.state.doc, ComputeDocDeco(view), ViewDecorations(view))

\* An apply has patched the tree in place and left the view read-only.
C1_Witness ==
  /\ last.op \in Applies /\ last.ok
  /\ Made(trace, {"docView.update"})
  /\ ~ view.editable

\* C2: a state transition invoked from inside a plugin view's update hook is
\* never interleaved with the current apply: it is rejected, or it runs only
\* after the current apply (its remaining plugin notifications and its
\* scroll resolution included) has completed.  In the log: no call of the
\* nested apply (d = 1) precedes a call of the apply that was under way
\* (d = 0).
C2_NestedApplyNotInterleaved ==
  \A j, k \in DOMAIN trace :
    trace[j].d = 1 /\ trace[k].d = 0 => k < j

\* The phase of updateStateInner a call belongs to (0: none of the five).
Phase(name) ==
  IF name = "clearComposition" THEN 1
  ELSE IF name \in TreeCalls THEN 2
  ELSE IF name \in SelectionCalls \cup {"domObserver.setCurSelection"} THEN 3
  ELSE IF name \in PluginCalls THEN 4
  ELSE IF name \in ScrollCalls THEN 5
  ELSE 0

\* C3: within every apply the phases occur in one fixed order: composition
\* termination, then tree patch or rebuild, then selection resync, then
\* plugin view notification, then scroll resolution; no call of a phase
\* precedes a call of an earlier phase of the same apply.
C3_PhaseOrder ==
  last.op \in Applies =>
    \A j, k \in DOMAIN trace :
      /\ j < k
      /\ trace[j].d = trace[k].d
      /\ Phase(trace[j].ev) > 0
      /\ Phase(trace[k].ev) > 0
      => Phase(trace[j].ev) <= Phase(trace[k].ev)

\* An apply in which all five phases ran.
C3_Witness ==
  /\ last.op \in Applies /\ last.ok
  /\ \A p \in 1..5 : \E k \in DOMAIN trace : Phase(trace[k].ev) = p

\* C4: every domObserver.stop() issued by updateStateInner or focus is
\* followed by domObserver.start() before the operation exits, also when the
\* tree patch, the rebuild or the selection write throws: the observer is
\* never left stopped after the operation.
C4_ObserverRestarted ==
  last.op \in Applies \cup {"focus"} =>
    /\ view.observing
    /\ \A j \in Calls(trace, {"domObserver.stop"}) :
         \E k \in Calls(trace, {"domObserver.start"}) : j < k

\* C5: in updateStateInner and focus, every mutation of the rendered tree
\* and every selection write happens while the observer is stopped: after a
\* domObserver.stop() with no start in between, and before the
\* domObserver.start() that follows it.
C5_WritesWhileStopped ==
  last.op \in Applies \cup {"focus"} =>
    \A k \in Calls(trace, TreeCalls \cup SelectionCalls) :
      /\ \E j \in Calls(trace, {"domObserver.stop"}) :
           j < k /\ \A l \in Calls(trace, {"domObserver.start"}) : ~ (j < l /\ l < k)
      /\ \E l \in Calls(trace, {"domObserver.start"}) :
           k < l /\ \A j \in Calls(trace, {"domObserver.stop"}) : ~ (k < j /\ j < l)

\* An apply that rebuilt the tree and wrote the selection.
C5_Witness ==
  /\ last.op \in Applies /\ last.ok
  /\ Made(trace, {"docViewDesc"})
  /\ Made(trace, SelectionCalls)

\* C6: when updateState is called twice in a row with the same state, the
\* second call performs no docView update, destroy or rebuild, does not stop
\* the observer, and writes no selection.
C6_SecondCallNoOp ==
  last.op = "updateState" /\ last.again =>
    ~ Made(trace, TreeCalls \cup SelectionCalls \cup {"domObserver.stop"})

\* A repeated updateState call has returned, having notified a plugin view.
C6_Witness ==
  /\ last.op = "updateState" /\ last.again /\ last.ok
  /\ Made(trace, {"pluginView.update"})

\* C7: when a state carrying stored marks is applied while a composition is
\* active, the composition is terminated before any tree patch runs, and the
\* same apply stops the observer, writes the selection and starts the
\* observer again, whether or not the document or the selection changed.
C7_CompositionEndsFirst ==
  [][ (last'.op \in Applies /\ last'.ok /\ view.composing /\ view'.state.storedMarks) =>
        /\ ~ view'.composing
        /\ Made(trace', {"clearComposition"})
        /\ \A k \in Calls(trace', {"clearComposition"}), j \in Calls(trace', TreeCalls) : k < j
        /\ \E a \in Calls(trace', {"domObserver.stop"}),
              b \in Calls(trace', SelectionCalls),
              c \in Calls(trace', {"domObserver.start"}) : a < b /\ b < c
    ]_vars

\* An apply that ended a composition and wrote the selection without
\* touching the tree.
C7_Witness ==
  /\ last.op \in Applies /\ last.ok
  /\ Made(trace, {"clearComposition"})
  /\ ~ Made(trace, TreeCalls)
  /\ Made(trace, SelectionCalls)

\* The plugin array arr holds a plugin whose editable prop returns false.
HasReadOnly(arr) ==
  \E i \in DOMAIN PluginsOf(arr) : PluginsOf(arr)[i].props.editable = "false"

\* The step is an apply that returned and changed the plugin list, adding an
\* editable predicate that returns false.
AddsReadOnly ==
  /\ last'.op \in Applies /\ last'.ok
  /\ view.state.plugins # view'.state.plugins
  /\ ~ HasReadOnly(view.state.plugins)
  /\ HasReadOnly(view'.state.plugins)

Reconfiguring ==
  last'.op \in {"update", "setProps"} \/ view.state.plugins # view'.state.plugins

\* The step's new state asks for scrolling: its counter is strictly greater
\* than the previous view state's.
ScrollRequested == view'.state.scrollToSelection > view.state.scrollToSelection

\* C9: the scroll resolution of an apply performs exactly one of three
\* behaviours: "reset" (scrollTop set to 0) on a reconfiguration, also when
\* the scroll counter increased; otherwise "to selection" when the new
\* state's counter is strictly greater than the previous state's; otherwise
\* "preserve", which restores a scroll snapshot if and only if one was taken
\* earlier in the same apply.
C9_ScrollPriority ==
  [][ (last'.op \in Applies /\ last'.ok) =>
        IF Reconfiguring
          THEN /\ Made(trace', {"scrollTop = 0"})
               /\ ~ Made(trace', ScrollCalls \ {"scrollTop = 0"})
        ELSE IF ScrollRequested
          THEN /\ Made(trace', {"scrollRectIntoView", "handleScrollToSelection"})
               /\ ~ Made(trace', {"scrollTop = 0", "resetScrollPos"})
        ELSE /\ ~ Made(trace', ScrollCalls \ {"resetScrollPos"})
             /\ Made(trace', {"resetScrollPos"}) <=>
                  \E j \in Calls(trace', {"storeScrollPos"}),
                     k \in Calls(trace', {"resetScrollPos"}) : j < k
             /\ Made(trace', {"storeScrollPos"}) => Made(trace', {"resetScrollPos"})
    ]_vars

\* An updateState call has scrolled the selection into view.
C9_Witness ==
  /\ last.op = "updateState" /\ last.ok
  /\ Made(trace, {"scrollRectIntoView"})
  /\ ~ Made(trace, {"scrollTop = 0", "resetScrollPos"})

\* C10 as the specification states it: a scroll snapshot is taken in an
\* apply exactly when a selection resync is needed, the tree is not being
\* patched, the scroll mode is "preserve", and the platform lacks automatic
\* scroll anchoring; none is taken in an apply that patches or rebuilds the
\* tree.
C10_SnapshotOnlyWithoutPatch ==
  [][ (last'.op \in Applies /\ last'.ok) =>
        (Made(trace', {"storeScrollPos"}) <=>
           /\ Made(trace', {"domObserver.stop"})
           /\ ~ Made(trace', TreeCalls)
           /\ ~ Reconfiguring /\ ~ ScrollRequested
           /\ ~ platform.overflowAnchor)
    ]_vars

\* C10, amended: a scroll snapshot is taken in an apply exactly when a
\* selection resync is performed, the scroll mode is "preserve", and the
\* platform lacks automatic scroll anchoring, whether or not the apply
\* patches or rebuilds the tree.
C10_SnapshotOnResync ==
  [][ (last'.op \in Applies /\ last'.ok) =>
        (Made(trace', {"storeScrollPos"}) <=>
           /\ Made(trace', {"domObserver.stop"})
           /\ ~ Reconfiguring /\ ~ ScrollRequested
           /\ ~ platform.overflowAnchor)
    ]_vars

\* A snapshot was taken in an apply that patched the tree.
C10_Witness ==
  /\ last.op \in Applies /\ last.ok
  /\ Made(trace, {"storeScrollPos"})
  /\ Made(trace, {"docView.update"})


\* The plugin views the factories of the plugins in arr produce: one per
\* plugin that has a view factory, in plugin order.
PluginViewsOf(arr) ==
  LET withView == SelectSeq(PluginsOf(arr), LAMBDA p : p.view # "none")
  IN [k \in 1..Len(withView) |-> [key |-> withView[k].key, hooks |-> withView[k].view]]

\* The calls with the given name come with strictly increasing index.
InOrder(t, name) ==
  \A j, k \in Calls(t, {name}) : j < k => t[j].i < t[k].i

\* The indices the calls with the given name come with.
Indices(t, name) == {t[k].i : k \in Calls(t, {name})}

\* C11: after construction and after every apply that returns,
\* view.pluginViews is exactly the sequence of objects produced, in plugin
\* order, by the view factories of the plugins in state.plugins that have
\* one; the list is torn down and re-instantiated if and only if the plugins
\* array identity differs from the previous state's, and otherwise the same
\* view objects are kept and each one with an update hook gets its update
\* call.
C11_PluginViewsFollowPlugins ==
  /\ [](last.ok /\ last.op \in Applies \cup {"construct"} =>
          view.pluginViews = PluginViewsOf(view.state.plugins))
  /\ [][ (last'.op \in Applies /\ last'.ok) =>
           IF view.state.plugins # view'.state.plugins
             THEN /\ Indices(trace', "pluginView.destroy") =
                       {k \in DOMAIN view.pluginViews :
                          view.pluginViews[k].hooks \in {"updateDestroy", "destroy"}}
                  /\ Indices(trace', "plugin.spec.view") =
                       {k \in DOMAIN PluginsOf(view'.state.plugins) :
                          PluginsOf(view'.state.plugins)[k].view # "none"}
                  /\ InOrder(trace', "plugin.spec.view")
                  /\ \A j \in Calls(trace', {"pluginView.destroy"}),
                        k \in Calls(trace', {"plugin.spec.view"}) : j < k
                  /\ ~ Made(trace', {"pluginView.update"})
             ELSE /\ view'.pluginViews = view.pluginViews
                  /\ ~ Made(trace', {"plugin.spec.view", "pluginView.destroy"})
                  /\ Indices(trace', "pluginView.update") =
                       {k \in DOMAIN view.pluginViews :
                          view.pluginViews[k].hooks \in {"updateDestroy", "update"}}
                  /\ InOrder(trace', "pluginView.update")
                  /\ Cardinality(Calls(trace', {"pluginView.update"})) =
                       Cardinality(Indices(trace', "pluginView.update"))
       ]_vars

\* An apply kept the plugin views and called the update hook of both.
C11_Witness ==
  /\ last.op \in Applies /\ last.ok
  /\ Indices(trace, "pluginView.update") = {1, 2}
  /\ ~ Made(trace, {"plugin.spec.view"})

\* C12: within one apply, the plugin view update hooks run in registration
\* order, and every hook observes the same view.state, the new state, which
\* is by then applied to the tree and the selection, together with the same
\* previous state.
C12_HooksSeeAppliedState ==
  [][ (last'.op \in Applies /\ last'.ok) =>
        /\ InOrder(trace', "pluginView.update")
        /\ \A k \in Calls(trace', {"pluginView.update"}) :
             /\ trace'[k].state = supplied'
             /\ trace'[k].prev = view.state
             /\ \A j \in Calls(trace', TreeCalls \cup SelectionCalls) : j < k
        /\ Made(trace', {"pluginView.update"}) =>
             MatchesNode(view'.docView, supplied'.doc, ComputeDocDeco(view'),
                         ViewDecorations(view'))
    ]_vars

\* Two recording hooks ran in an apply that patched the tree and wrote the
\* selection before them.
C12_Witness ==
  /\ last.op = "updateState" /\ last.ok
  /\ Indices(trace, "pluginView.update") = {1, 2}
  /\ \A k \in Calls(trace, {"pluginView.update"}) : trace[k].prev # trace[k].state
  /\ Made(trace, {"docView.update"})
  /\ Made(trace, {"selectionToDOM"})

\* C13: over any sequence of construction, applies and destroy(), a plugin
\* view's teardown hook is invoked exactly once, when the plugin list
\* identity changes or on destroy(), and its update hook is never invoked
\* after that; after destroy() no plugin view remains registered.  Step by
\* step: the registered views are the ones not yet torn down; a step tears a
\* view down at most once, tears down exactly the registered views that have
\* the hook when the plugin list changes or the view is destroyed and none
\* otherwise, calls no update hook after a teardown, and leaves nothing
\* registered and calls no hook on a destroyed view.
C13_TeardownOnce ==
  [][ (last'.op \in Applies \cup {"destroy"}) =>
        /\ Cardinality(Calls(trace', {"pluginView.destroy"})) =
             Cardinality(Indices(trace', "pluginView.destroy"))
        /\ Indices(trace', "pluginView.destroy") =
             IF view.docView # NoDocView /\ last'.ok /\
                (last'.op = "destroy" \/ view.state.plugins # view'.state.plugins)
               THEN {k \in DOMAIN view.pluginViews :
                       view.pluginViews[k].hooks \in {"updateDestroy", "destroy"}}
               ELSE {}
        /\ \A j \in Calls(trace', {"pluginView.destroy"}),
              k \in Calls(trace', {"pluginView.update"}) : k < j
        /\ ~ Made(trace', {"pluginView.destroy"}) /\ last'.op # "destroy" =>
             view'.pluginViews = view.pluginViews
        /\ last'.op = "destroy" => view'.pluginViews = << >>
        /\ view.docView = NoDocView =>
             ~ Made(trace', PluginCalls) /\ view'.pluginViews = << >>
    ]_vars

\* destroy() has torn down a plugin view and left none registered.
C13_Witness ==
  /\ last.op = "destroy" /\ last.ok
  /\ Made(trace, {"pluginView.destroy"})
  /\ view.pluginViews = << >>


\* The providers of ps for which holds(provider) is true.
Suppliers(ps, holds(_)) == {i \in DOMAIN ps : holds(ps[i])}

\* The least element of a non-empty set of provider indices.
First(indices) == CHOOSE i \in indices : \A j \in indices : i <= j

\* The providers i of a someProp call whose value is neither null nor
\* undefined and gives a truthy result.
Hits(ps, f) ==
  Suppliers(ps, LAMBDA p : /\ p.custom \notin {"undefined", "null"}
                           /\ Truthy(IF f = "absent" THEN p.custom ELSE CallF(f, p.custom)))

\* The last provider a someProp call has to read.
LastRead(ps, f) == IF Hits(ps, f) = {} THEN Len(ps) ELSE First(Hits(ps, f))

C15_EditableIffNoFalse ==
  (last.op \in Applies /\ last.ok) =>
    (view.editable = FALSE <=>
       \E i \in DOMAIN Providers(view) : Providers(view)[i].editable = "false")

\* An apply left the view read-only although a provider before the one that
\* returns false returns true.
C15_Witness ==
  /\ last.op \in Applies /\ last.ok
  /\ view.editable = FALSE
  /\ \E i, j \in DOMAIN Providers(view) :
       /\ i < j
       /\ Providers(view)[i].editable = "true"
       /\ Providers(view)[j].editable = "false"


\* An attributes object supplies the attribute name.
Supplies(object, name) == \E k \in DOMAIN object : object[k][1] = name

\* The value an attributes object supplies for name.
ValueIn(object, name) == object[CHOOSE k \in DOMAIN object : object[k][1] = name][2]

\* The classes of the providers from provider i on, in order.
RECURSIVE ClassesFrom(_, _)
ClassesFrom(ps, i) ==
  IF i > Len(ps) THEN << >>
  ELSE IF Supplies(ps[i].attributes, "class")
    THEN << ValueIn(ps[i].attributes, "class") >> \o ClassesFrom(ps, i + 1)
  ELSE ClassesFrom(ps, i + 1)

\* The attribute names a provider list can set besides class.
SettableNames(ps) ==
  {ps[i].attributes[k][1] : i \in DOMAIN ps, k \in 1..2}
    \ {"class", "contenteditable", "nodeName"}

\* The class is "ProseMirror" followed by every provider's class in order,
\* contenteditable is the string form of the editable flag, and neither it
\* nor nodeName is set from a provider.
C16_ClassAndReservedNames ==
  last.op = "computeDocDeco" =>
    /\ result.value[1].class = << "ProseMirror" >> \o ClassesFrom(supplied.ps, 1)
    /\ result.value[1].contenteditable = StringOf(supplied.editable)
    /\ "contenteditable" \notin DOMAIN result.value[1].other
    /\ "nodeName" \notin DOMAIN result.value[1].other

\* C16: the outer decoration attributes are merged over all attributes
\* providers in precedence order: the class begins with "ProseMirror"
\* followed by every provider's class in order; contenteditable equals the
\* string form of view.editable and, like nodeName, is never set by a
\* provider; for every other attribute name the value of the first provider
\* that supplies it wins and later providers never override it.
C16_FirstAttributeWins ==
  last.op = "computeDocDeco" =>
    /\ C16_ClassAndReservedNames
    /\ \A name \in {"title"} :
         LET suppliers == Suppliers(supplied.ps, LAMBDA p : Supplies(p.attributes, name))
         IN IF suppliers = {} THEN name \notin DOMAIN result.value[1].other
            ELSE /\ name \in DOMAIN result.value[1].other
                 /\ result.value[1].other[name] =
                      ValueIn(supplied.ps[First(suppliers)].attributes, name)


\* C17: the node-view registry contains, for every type name supplied by any
\* provider, the factory of the first provider in precedence order that
\* supplies that name; a later provider never replaces an earlier provider's
\* entry, and names supplied only by later providers are still included.
C17_FirstNodeViewWins ==
  last.op = "buildNodeViews" =>
    /\ DOMAIN result.value[1] =
         UNION {DOMAIN supplied.ps[i].nodeViews : i \in DOMAIN supplied.ps}
    /\ \A name \in DOMAIN result.value[1] :
         result.value[1][name] =
           supplied.ps[First(Suppliers(supplied.ps,
                                       LAMBDA p : name \in DOMAIN p.nodeViews))
                      ].nodeViews[name]

\* The registry keeps the direct props' factory for a name a plugin also
\* supplies with another factory, and includes a name only a plugin supplies.
C17_Witness ==
  /\ last.op = "buildNodeViews"
  /\ Len(supplied.ps) >= 2
  /\ DOMAIN supplied.ps[1].nodeViews = {"image"}
  /\ DOMAIN supplied.ps[2].nodeViews = {"image", "para"}
  /\ supplied.ps[1].nodeViews["image"] # supplied.ps[2].nodeViews["image"]
  /\ result.value[1]["image"] = supplied.ps[1].nodeViews["image"]
  /\ result.value[1]["para"] = supplied.ps[2].nodeViews["para"]


\* C18: posAtDOM raises a RangeError exactly when the lookup in the rendered
\* tree yields null or undefined, and otherwise returns the position found,
\* position 0 included; in both cases the view's state, tree and selection
\* are left unchanged.
C18_PosAtDOMRejectsUnmapped ==
  [][ last'.op = "posAtDOM" =>
        /\ trace'[1].ev = "docView.posFromDOM"
        /\ Calls(trace', TreeCalls \cup SelectionCalls \cup PluginCalls \cup ScrollCalls) = {}
        /\ result'.thrown = "RangeError" <=>
             trace'[1].returned.found \in {"null", "undefined"}
        /\ result'.thrown \in {"none", "RangeError"}
        /\ result'.value = IF trace'[1].returned.found = "number"
                             THEN << trace'[1].returned.pos >> ELSE << >>
        /\ last'.ok <=> result'.thrown = "none"
        /\ view' = view
    ]_vars

\* posAtDOM returned position 0.
C18_Witness ==
  /\ last.op = "posAtDOM"
  /\ trace[1].returned = [found |-> "number", pos |-> 0]
  /\ result = [thrown |-> "none", value |-> << 0 >>]


\* The docView.update calls of the log t that returned false.
FailedPatch(t) == {k \in Calls(t, {"docView.update"}) : t[k].i = 0}

\* C19: a failed in-place patch (docView.update returns false) is never
\* surfaced to the caller of the apply: the old root descriptor has its outer
\* decorations removed and is destroyed, then a fresh descriptor is built,
\* and the apply continues with the selection resync, the plugin view
\* notification and the scroll resolution, as after a successful patch.
C19_FailedPatchRebuilds ==
  [][ (last'.op \in Applies /\ FailedPatch(trace') # {}) =>
        /\ last'.ok
        /\ result' = Undefined
        /\ view'.state = supplied'
        /\ \A k \in FailedPatch(trace') :
             /\ Len(trace') >= k + 3
             /\ trace'[k + 1].ev = "docView.updateOuterDeco"
             /\ trace'[k + 2].ev = "docView.destroy"
             /\ trace'[k + 3].ev = "docViewDesc"
             /\ \E j \in Calls(trace', SelectionCalls) :
                  /\ k + 3 < j
                  /\ \E l \in Calls(trace', {"domObserver.start"}) :
                       /\ j < l
                       /\ \E p \in Calls(trace', PluginCalls) :
                            /\ l < p
                            /\ \A q \in Calls(trace', ScrollCalls) : p < q
        /\ IF Reconfiguring THEN Made(trace', {"scrollTop = 0"})
           ELSE IF ScrollRequested
             THEN Made(trace', {"scrollRectIntoView", "handleScrollToSelection"})
           ELSE Made(trace', {"storeScrollPos"}) => Made(trace', {"resetScrollPos"})
    ]_vars

\* An apply whose patch failed has rebuilt the tree, notified a plugin view
\* and scrolled the selection into view.
C19_Witness ==
  /\ last.op \in Applies /\ last.ok
  /\ FailedPatch(trace) # {}
  /\ Made(trace, {"docViewDesc"})
  /\ Made(trace, {"pluginView.update"})
  /\ Made(trace, {"scrollRectIntoView"})


\* The providers of the view v that have a handleScrollToSelection handler.
ScrollHandlers(v) ==
  Suppliers(Providers(v), LAMBDA p : p.handleScrollToSelection # "unset")

\* The handler calls of the log t that returned a truthy value.
Handled(t) == {k \in Calls(t, {"handleScrollToSelection"}) : t[k].returned}

C21_DispatchEitherOr ==
  [][ last'.op = "dispatch" =>
        IF view.props.dispatchTransaction
          THEN /\ Len(trace') = 1
               /\ trace'[1].ev = "dispatchTransaction"
               /\ trace'[1].this = "view"
               /\ trace'[1].tr \in Transactions(view.state)
               /\ view' = view
          ELSE /\ ~ Made(trace', {"dispatchTransaction"})
               /\ trace'[1].ev = "state.apply"
               /\ trace'[1].tr \in Transactions(view.state)
               /\ supplied' = StateApply(view.state, trace'[1].tr)
               /\ \E in \in PlainInputs :
                    /\ view' = UpdateState(Start(view), supplied', in, 0).v
                    /\ SubSeq(trace', 2, Len(trace')) =
                         UpdateState(Start(view), supplied', in, 0).t
    ]_vars

\* dispatch handed a transaction that changes the document to the
\* dispatchTransaction callback and left the view as it was.
C21_Witness ==
  /\ last.op = "dispatch" /\ last.ok
  /\ view.props.dispatchTransaction
  /\ Len(trace) = 1
  /\ trace[1].ev = "dispatchTransaction"
  /\ trace[1].tr.doc # view.state.doc


\* The log t shows a rebuild of the tree that was not preceded by an attempt
\* to update it in place.
ForcedRebuild(t) ==
  /\ Made(t, {"docView.destroy"})
  /\ Made(t, {"docViewDesc"})
  /\ ~ Made(t, {"docView.update"})

\* Two node-view mappings differ: in their names, or in the factory of a
\* name.
MappingsDiffer(a, b) ==
  \/ DOMAIN a # DOMAIN b
  \/ \E n \in DOMAIN a \cap DOMAIN b : a[n] # b[n]

\* changedNodeViews(a, b) is true exactly for mappings that differ.
C22_ChangedNodeViewsExact ==
  last.op = "changedNodeViews" =>
    (result.value[1] <=> MappingsDiffer(supplied.a, supplied.b))

\* C22: on a reconfiguring apply the node-view registry is recomputed, and a
\* full rebuild (the old docView destroyed and a new one created without an
\* attempt to update in place) is forced if and only if the recomputed
\* mapping differs from the previous one; when it is equal view.nodeViews is
\* kept; on a non-reconfiguring apply the registry is not recomputed and no
\* rebuild is forced.
C22_RegistryForcesRebuild ==
  [][ (last'.op \in Applies /\ last'.ok) =>
        IF Reconfiguring
          THEN /\ view'.nodeViews = BuildNodeViews(view')
               /\ ForcedRebuild(trace') <=>
                    MappingsDiffer(view'.nodeViews, view.nodeViews)
               /\ ~ MappingsDiffer(view'.nodeViews, view.nodeViews) =>
                    view'.nodeViews = view.nodeViews
          ELSE /\ view'.nodeViews = view.nodeViews
               /\ ~ ForcedRebuild(trace')
    ]_vars

\* A reconfiguring apply changed the factory of a name and rebuilt the tree
\* without trying to update it.
C22_Witness ==
  /\ last.op \in {"update", "setProps"} /\ last.ok
  /\ ForcedRebuild(trace)
  /\ view.nodeViews = [n \in {"image"} |-> "imgB"]


\* The log t shows a selection resync: the observer is stopped, the
\* selection is written, and the observer is started again.
Resynced(t) ==
  \E j \in Calls(t, {"domObserver.stop"}) :
    \E k \in Calls(t, SelectionCalls) :
      /\ j < k
      /\ \E l \in Calls(t, {"domObserver.start"}) : k < l

ResyncCalls ==
  SelectionCalls \cup {"domObserver.stop", "domObserver.start", "domObserver.setCurSelection"}

\* C23 as the specification states it: an apply performs a selection resync
\* if and only if the document changed, or the new selection is not equal to
\* the previous state's selection, or a composition was terminated because
\* of stored marks; an apply in which none of these holds does not pause the
\* observer and writes no selection.
C23_ResyncIffDocOrSelection ==
  [][ (last'.op \in Applies /\ last'.ok) =>
        /\ Resynced(trace') <=>
             \/ view.state.doc # view'.state.doc
             \/ ~ SelEq(view'.state.selection, view.state.selection)
             \/ Made(trace', {"clearComposition"})
        /\ ~ Resynced(trace') => ~ Made(trace', ResyncCalls)
    ]_vars

\* C23, amended: an apply performs a selection resync if and only if it
\* updates or rebuilds the rendered tree, or the new selection is not equal
\* to the previous state's selection, or a composition was terminated
\* because of stored marks; the tree is updated or rebuilt at least when the
\* document or the node-view registry changed; an apply that does not touch
\* the tree, keeps the selection and terminates no composition does not
\* pause the observer and writes no selection.
C23_ResyncIffTreeOrSelection ==
  [][ (last'.op \in Applies /\ last'.ok) =>
        /\ Resynced(trace') <=>
             \/ Made(trace', TreeCalls)
             \/ ~ SelEq(view'.state.selection, view.state.selection)
             \/ Made(trace', {"clearComposition"})
        /\ (view.state.doc # view'.state.doc \/
            MappingsDiffer(view'.nodeViews, view.nodeViews)) => Made(trace', TreeCalls)
        /\ Made(trace', {"clearComposition"}) <=>
             (view.composing /\ view'.state.storedMarks)
        /\ ~ Resynced(trace') => ~ Made(trace', ResyncCalls)
    ]_vars

\* An apply that terminated no composition has stopped the observer,
\* updated the tree in place, written the selection and started the
\* observer again.
C23_Witness ==
  /\ last.op \in Applies /\ last.ok
  /\ Resynced(trace)
  /\ Made(trace, {"docView.update"})
  /\ ~ Made(trace, {"clearComposition"})


\* What the selection resync of the log t read.
ReadsOf(t) == t[CHOOSE k \in DOMAIN t : t[k].ev = "selection reads"]

\* The step is an apply that returned and resynced the selection, with its
\* reads recorded.
ResyncStep ==
  /\ last'.op \in Applies /\ last'.ok
  /\ Made(trace', {"selection reads"})

\* C24: in every apply that resyncs the selection exactly one of the two
\* selection paths runs: the full write (selectionToDOM) or the cheap path
\* (syncNodeSelection and recording the observer's current selection); the
\* cheap path runs only when no forced resync is required and the pointer is
\* down and the observer's last recorded selection equals the platform
\* selection and the anchor is in the right place, and on the cheap path the
\* full write is never performed.
C24_ExactlyOneSelectionPath ==
  [][ (last'.op \in Applies /\ last'.ok /\ Made(trace', {"domObserver.stop"})) =>
        /\ Made(trace', {"selection reads"})
        /\ Cardinality(Calls(trace', {"selectionToDOM"}))
             + Cardinality(Calls(trace', {"syncNodeSelection"})) = 1
        /\ Made(trace', {"syncNodeSelection"}) <=>
             /\ ~ ReadsOf(trace').context
             /\ ~ ReadsOf(trace').kludge
             /\ ReadsOf(trace').mouseDown
             /\ ReadsOf(trace').domSelSame
             /\ ReadsOf(trace').anchorOk
        /\ \A k \in Calls(trace', {"syncNodeSelection"}) :
             /\ k < Len(trace')
             /\ trace'[k + 1].ev = "domObserver.setCurSelection"
        /\ Cardinality(Calls(trace', {"domObserver.setCurSelection"})) =
             Cardinality(Calls(trace', {"syncNodeSelection"}))
        /\ \A k \in Calls(trace', {"selectionToDOM"}) :
             trace'[k].i = 1 <=> (ReadsOf(trace').context \/ ReadsOf(trace').kludge)
    ]_vars

\* An apply that updated the tree during a pointer drag took the cheap path.
C24_Witness ==
  /\ last.op = "updateState" /\ last.ok
  /\ Made(trace, {"docView.update"})
  /\ Made(trace, {"syncNodeSelection"})
  /\ ~ Made(trace, {"selectionToDOM"})
  /\ ReadsOf(trace).mouseDown

\* C25 as the specification states it: the correction forces a full
\* selection resync when the tree was patched near an existing non-collapsed
\* selection and the shared ancestor depth of the old selection differs from
\* that of the new selection; it is never triggered when the tree is not
\* patched, when a composition is active, or when the old or the new
\* selection is empty.
C25_ForcedWhenDepthDiffers ==
  [][ ResyncStep =>
        /\ ( /\ Made(trace', TreeCalls)
             /\ ~ view'.composing
             /\ ~ SelEmpty(view.state.selection)
             /\ ~ SelEmpty(view'.state.selection)
             /\ view.state.selection.shared # view'.state.selection.shared )
           => ReadsOf(trace').context
        /\ ReadsOf(trace').context =>
             /\ Made(trace', TreeCalls)
             /\ ~ view'.composing
             /\ ~ SelEmpty(view.state.selection)
             /\ ~ SelEmpty(view'.state.selection)
    ]_vars

\* C25, amended: on IE and Chrome the correction forces a full selection
\* resync exactly when the tree is updated or rebuilt, no composition is
\* active, neither the old nor the new selection is empty, and the start of
\* the anchor's ancestor at the smaller of the two selections' shared depths
\* differs between the old and the new selection; on other browsers, when
\* the tree is not updated, when a composition is active, or when the old or
\* the new selection is empty it is never triggered.
C25_ForcedWhenContextChanged ==
  [][ ResyncStep =>
        /\ ReadsOf(trace').context <=>
             /\ Made(trace', TreeCalls)
             /\ platform.browser \in {"ie", "chrome"}
             /\ ~ view'.composing
             /\ ~ SelEmpty(view.state.selection)
             /\ ~ SelEmpty(view'.state.selection)
             /\ view.state.selection.starts[
                  Min(view.state.selection.shared, view'.state.selection.shared) + 1]
                # view'.state.selection.starts[
                  Min(view.state.selection.shared, view'.state.selection.shared) + 1]
        /\ ReadsOf(trace').context => Made(trace', {"selectionToDOM"})
    ]_vars

\* The correction forced the full write during a pointer drag that would
\* otherwise have taken the cheap path.
C25_Witness ==
  /\ last.op = "updateState" /\ last.ok
  /\ Made(trace, {"selection reads"})
  /\ ReadsOf(trace).context /\ ~ ReadsOf(trace).kludge
  /\ ReadsOf(trace).mouseDown /\ ReadsOf(trace).domSelSame /\ ReadsOf(trace).anchorOk
  /\ Made(trace, {"selectionToDOM"})


\* The view record without its props objects.
WithoutObjects(v) == [n \in DOMAIN v \ {"objects", "ref"} |-> v[n]]

\* update(Object.assign({}, view.props, partial)) on the view held by m.
UpdateAssigned(m, partial, in, d) ==
  UpdateObject([m EXCEPT !.v = PropsGetter(m.v)],
               Assign(PropsGetter(m.v).objects[PropsGetter(m.v).ref], partial), in, d)

\* setProps(partial) and update(Object.assign({}, view.props, partial)) make
\* the same calls and leave the same view with the same current props
\* object.
SetPropsIsUpdate(v, partial) ==
  /\ SetPropsObject(Start(v), partial, DefaultIn, 0).t =
       UpdateAssigned(Start(v), partial, DefaultIn, 0).t
  /\ WithoutObjects(SetPropsObject(Start(v), partial, DefaultIn, 0).v) =
       WithoutObjects(UpdateAssigned(Start(v), partial, DefaultIn, 0).v)
  /\ SetPropsObject(Start(v), partial, DefaultIn, 0).v.objects[
       SetPropsObject(Start(v), partial, DefaultIn, 0).v.ref] =
     UpdateAssigned(Start(v), partial, DefaultIn, 0).v.objects[
       UpdateAssigned(Start(v), partial, DefaultIn, 0).v.ref]

\* setProps(partial) keeps every prop partial does not name, and keeps the
\* current state unless partial supplies one.
SetPropsKeepsTheRest(v, partial) ==
  /\ \A n \in DOMAIN NoProps \ DOMAIN partial :
       SetPropsObject(Start(v), partial, DefaultIn, 0).v.props[n] = v.props[n]
  /\ \A n \in DOMAIN NoProps \cap DOMAIN partial :
       SetPropsObject(Start(v), partial, DefaultIn, 0).v.props[n] = partial[n]
  /\ SetPropsObject(Start(v), partial, DefaultIn, 0).v.state =
       IF "state" \in DOMAIN partial THEN partial.state ELSE v.state

\* C26: at every observation point view.props.state is the view's current
\* state, and reading view.props never mutates a props object that existed
\* before (a stale props object is copied, not patched); setProps(p) is
\* equivalent to update(Object.assign({}, view.props, p)): every prop not
\* named in p keeps its value and the state stays the current view.state
\* unless p itself supplies a state.
C26_PropsFollowState ==
  /\ [][ last'.op = "props" =>
           /\ result'.value = << view'.ref >>
           /\ view'.objects[view'.ref].state = view.state
           /\ PropsOf(view'.objects[view'.ref]) = view.props
           /\ \A i \in DOMAIN view.objects : view'.objects[i] = view.objects[i]
           /\ WithoutObjects(view') = WithoutObjects(view)
       ]_vars
  /\ [](last.op = "idle" =>
          \A partial \in PropsPartials(view.state) :
            /\ SetPropsIsUpdate(view, partial)
            /\ SetPropsKeepsTheRest(view, partial))

\* Reading view.props after the state moved on returned a copy of the stale
\* props object with the current state, and left the stale object as it was.
C26_Witness ==
  /\ last.op = "props"
  /\ view.ref = Len(view.objects)
  /\ view.objects[view.ref].state = view.state
  /\ \E i \in 1..(view.ref - 1) :
       /\ PropsOf(view.objects[i]) = PropsOf(view.objects[view.ref])
       /\ view.objects[i].state # view.state


\* C27: updateState(s) is treated as a reconfiguration if and only if
\* s.plugins is not the identical array of the current state, whereas every
\* update(props) and setProps(props) call is treated as a reconfiguration
\* unconditionally: it resolves the scroll mode to "reset" and sets
\* dom.scrollTop to 0 even when plugins, node views, document and selection
\* are all unchanged, while still keeping the existing plugin view objects
\* when the plugins array identity is unchanged.
C27_UpdateAlwaysReconfigures ==
  [][ (last'.op \in Applies /\ last'.ok) =>
        /\ last'.op = "updateState" =>
             /\ Made(trace', {"scrollTop = 0"}) <=>
                  view.state.plugins # view'.state.plugins
             /\ view.state.plugins = view'.state.plugins =>
                  view'.nodeViews = view.nodeViews
        /\ last'.op \in {"update", "setProps"} =>
             /\ Cardinality(Calls(trace', {"scrollTop = 0"})) = 1
             /\ Calls(trace', ScrollCalls \cup {"storeScrollPos"}) =
                  Calls(trace', {"scrollTop = 0"})
             /\ view.state.plugins = view'.state.plugins =>
                  /\ view'.pluginViews = view.pluginViews
                  /\ Calls(trace', {"plugin.spec.view", "pluginView.destroy"}) = {}
    ]_vars

\* An update or setProps call that changed neither the plugins nor the tree
\* nor the selection has set scrollTop to 0, and has notified the plugin
\* views it kept.
C27_Witness ==
  /\ last.op \in {"update", "setProps"} /\ last.ok
  /\ Made(trace, {"scrollTop = 0"})
  /\ Made(trace, {"pluginView.update"})
  /\ ~ Made(trace, TreeCalls \cup SelectionCalls)
  /\ ~ Made(trace, {"plugin.spec.view", "pluginView.destroy"})


\* The calls a destroy() makes beyond the plugin view teardown hooks.
TeardownCalls == {"destroyInput", "removeChild", "docView.destroy"}

\* C28: destroy() is idempotent: the first call runs the plugin view
\* teardown hooks, destroys the root descriptor and sets view.docView to
\* null; any later destroy() call changes nothing and invokes no teardown
\* hook, no input teardown and no DOM removal a second time.
C28_DestroyIdempotent ==
  [][ last'.op = "destroy" =>
        /\ last'.ok
        /\ IF view.docView # NoDocView
             THEN /\ Indices(trace', "pluginView.destroy") =
                       {k \in DOMAIN view.pluginViews :
                          view.pluginViews[k].hooks \in {"updateDestroy", "destroy"}}
                  /\ \A name \in TeardownCalls :
                       Cardinality(Calls(trace', {name})) = 1
                  /\ \A j \in Calls(trace', {"destroyInput"}),
                        k \in Calls(trace', {"pluginView.destroy"}),
                        l \in Calls(trace', {"docView.destroy"}) : j < k /\ k < l
                  /\ trace'[Len(trace')].ev = "docView.destroy"
                  /\ view'.docView = NoDocView
                  /\ view'.pluginViews = << >>
                  /\ view'.state = view.state
             ELSE /\ view' = view
                  /\ trace' = << >>
      ]_vars

\* destroy() was called on a view that was destroyed before: it made no
\* call and the view has no root descriptor.
C28_Witness ==
  /\ last.op = "destroy" /\ last.ok
  /\ trace = << >>
  /\ view.docView = NoDocView

====
